---- MODULE Spec2Model ----
(***************************************************************************)
(* Verification model of the Bedrock usage detector                        *)
(* (mcp_cost_optim_genai/detectors/bedrock_detector.py), of the FIS cache  *)
(* server (aws_chaos_engineering) and of the password-reset tools          *)
(* (ai-password-reset-chatbot/agent/strands_agent.py).                     *)
(*                                                                         *)
(* Text is modelled as a sequence of one-character strings.  Positions are *)
(* 0-based as in the Python source; At(s, i) reads the character at the    *)
(* 0-based index i.                                                        *)
(***************************************************************************)
EXTENDS Integers, Sequences, FiniteSets, TLC

VARIABLES
    \* _find_matching_paren(content, start_pos)
    content, start_pos, pos, depth, quote, scan_pc, scan_result,
    \* _parse_model_id(model_id): the argument, how it was composed, the result
    model_id, id_src, parsed, parse_pc,
    \* the regular-expression matcher: the function under test and its input,
    \* the calls still to make, the current call and its backtracking search
    rx_input, rx_content, rx_found, rx_frames, rx_job, rx_todo, rx_pos,
    rx_stack, rx_caps, rx_steps, rx_pc,
    \* _analyze_system_prompt_staticness(content): how the content was
    \* composed, the content, the returned analysis
    st_src, st_content, analysis, st_pc,
    \* _find_prompts(content, file_path): how the content was composed, the
    \* content, what the AI helper does in this call, the items of its answer
    \* still to convert, the local list prompts
    fp_src, fp_content, helper, ai_prompts, prompts, fp_pc,
    \* analyze: the calls that have ended, the file the running call was given,
    \* what the prompt helper answered during it, the local list findings, the
    \* step reached, and the interpreter's limit on int(str)
    calls, an_file, an_answers, findings, an_pc, int_max_str_digits,
    \* the detectors called on their own: the last call, what it was given and
    \* what it returned
    detection,
    \* the FIS cache server: the cache file of each region, the clock in hours,
    \* the last tool response
    fis_files, fis_clock, fis_reply,
    \* the password-reset tools: USER_POOL_CLIENT_ID, the code Cognito holds for
    \* the account, the last tool call with its response when the account
    \* exists and when it does not
    user_pool_client_id, cognito, reset_call,
    \* update_cache and get_cached_data step by step on one region's files: the
    \* directory (inode of each name, 0: no such file), the inodes' contents,
    \* every updating process's position, and what the reader last got
    cf_dir, cf_inodes, upd, got

scanVars == <<content, start_pos, pos, depth, quote, scan_pc, scan_result>>
parseVars == <<model_id, id_src, parsed, parse_pc>>

matchVars == <<rx_input, rx_content, rx_found, rx_frames, rx_job, rx_todo, rx_pos,
               rx_stack, rx_caps, rx_steps, rx_pc>>

staticVars == <<st_src, st_content, analysis, st_pc>>

promptVars == <<fp_src, fp_content, helper, ai_prompts, prompts, fp_pc>>

analyzeVars == <<calls, an_file, an_answers, findings, an_pc, int_max_str_digits>>

detectVars == <<detection>>

fisVars == <<fis_files, fis_clock, fis_reply>>

resetVars == <<user_pool_client_id, cognito, reset_call>>

cacheFileVars == <<cf_dir, cf_inodes, upd, got>>

vars == <<scanVars, parseVars, matchVars, staticVars, promptVars, analyzeVars, detectVars, fisVars, resetVars, cacheFileVars>>

\* what the actions of one part leave alone
notScanVars == <<parseVars, matchVars, staticVars, promptVars, analyzeVars, detectVars, fisVars, resetVars, cacheFileVars>>
notParseVars == <<scanVars, matchVars, staticVars, promptVars, analyzeVars, detectVars, fisVars, resetVars, cacheFileVars>>
notMatchVars == <<scanVars, parseVars, staticVars, promptVars, analyzeVars, detectVars, fisVars, resetVars, cacheFileVars>>
notStaticVars == <<scanVars, parseVars, matchVars, promptVars, analyzeVars, detectVars, fisVars, resetVars, cacheFileVars>>
notPromptVars == <<scanVars, parseVars, matchVars, staticVars, analyzeVars, detectVars, fisVars, resetVars, cacheFileVars>>
notAnalyzeVars == <<scanVars, parseVars, matchVars, staticVars, promptVars, detectVars, fisVars, resetVars, cacheFileVars>>
notDetectVars == <<scanVars, parseVars, matchVars, staticVars, promptVars, analyzeVars, fisVars, resetVars, cacheFileVars>>
notFisVars == <<scanVars, parseVars, matchVars, staticVars, promptVars, analyzeVars, detectVars, resetVars, cacheFileVars>>
notResetVars == <<scanVars, parseVars, matchVars, staticVars, promptVars, analyzeVars, detectVars, fisVars, cacheFileVars>>
notCacheFileVars == <<scanVars, parseVars, matchVars, staticVars, promptVars, analyzeVars, detectVars, fisVars, resetVars>>

\* Python's None: as the value of a character or a counter, and as the value
\* of a text field (a text is a sequence, so its None is one too)
None == "None"
NoText == <<"None">>

\* no detector has been called
NoDetection == [step |-> "none"]

\* the regions whose FIS data is cached
FisRegions == {"us-east-1", "us-west-2", "eu-west-1", "ap-south-1"}

\* a region without a cache file; no cache file at all
NoFile == [exists |-> FALSE]
NoFiles == [region \in FisRegions |-> NoFile]

\* no tool of the FIS server has been called
NoReply == [tool |-> "none"]

\* Cognito holds no verification code; no password-reset tool has been called
NoCode == [code |-> "", expired |-> FALSE]
NoCall == [tool |-> "none"]

(***************************************************************************)
(* Text helpers                                                            *)
(***************************************************************************)
At(s, i) == s[i + 1]

RECURSIVE Strings(_, _)
\* all texts over alphabet A of length exactly n
Strings(A, n) ==
    IF n = 0 THEN {<<>>}
    ELSE {Append(s, c) : s \in Strings(A, n - 1), c \in A}

StringsUpTo(A, n) == UNION {Strings(A, k) : k \in 0..n}

(***************************************************************************)
(* Balanced-parenthesis scanner: BedrockDetector._find_matching_paren      *)
(***************************************************************************)
MaxScanBody == 5

LPAREN == "("
RPAREN == ")"
DQUOTE == "\""
SQUOTE == "'"
BSLASH == "\\"
\* the grave accent U+0060 of template literals, which a string of this
\* language cannot hold: it is a character of its own, written by its name
BACKTICK == "grave"

ScanAlphabet == {LPAREN, RPAREN, DQUOTE, SQUOTE, BSLASH, "a"}

\* the texts scanned: the empty text, and an opening parenthesis followed by
\* any text of at most MaxScanBody characters; start_pos ranges over every
\* index of the text and the index just past its end
ScanTexts ==
    {<<>>} \cup {<<LPAREN>> \o b : b \in StringsUpTo(ScanAlphabet, MaxScanBody)}

ScanIdle ==
    /\ content = <<>> /\ start_pos = 0 /\ pos = 0 /\ depth = 0
    /\ quote = None /\ scan_pc = "idle" /\ scan_result = -2

ParseIdle ==
    /\ model_id = <<>> /\ id_src = None /\ parsed = None /\ parse_pc = "idle"

\* no group of a pattern has matched yet
NoGroups == [n \in 1..2 |-> None]

NoJob == [kind |-> "none", text |-> <<>>, start |-> 0, hits |-> <<>>]
NoInput == [fn |-> "none", shape |-> "none", n |-> 0]

MatchIdle ==
    /\ rx_input = NoInput /\ rx_content = <<>> /\ rx_found = 0
    /\ rx_frames = <<>> /\ rx_job = NoJob /\ rx_todo = <<>> /\ rx_pos = 0
    /\ rx_stack = <<>> /\ rx_caps = NoGroups /\ rx_steps = 0 /\ rx_pc = "idle"

StaticIdle ==
    /\ st_src = None /\ st_content = <<>> /\ analysis = None /\ st_pc = "idle"

NoHelper == [kind |-> "none", items |-> <<>>]

PromptsIdle ==
    /\ fp_src = <<>> /\ fp_content = <<>> /\ helper = NoHelper
    /\ ai_prompts = <<>> /\ prompts = <<>> /\ fp_pc = "idle"

AnalyzeIdle ==
    /\ calls = <<>> /\ an_file = 0 /\ an_answers = <<>> /\ findings = <<>>
    /\ an_pc = "idle" /\ int_max_str_digits = -1

DetectIdle ==
    /\ detection = NoDetection

FisIdle ==
    /\ fis_files = NoFiles /\ fis_clock = 0 /\ fis_reply = NoReply

ResetIdle ==
    /\ user_pool_client_id = "" /\ cognito = NoCode /\ reset_call = NoCall

\* ---- the cache file of one region and the processes working on it ----

\* the processes that may call update_cache on the region at the same time
NumWriters == 2
Writers == 1..NumWriters

\* the inodes the file system can hold at once
MaxInodes == 4

\* cache_file and temp_file = cache_file.with_suffix('.tmp')
CacheNames == {"cache", "tmp"}
NoNames == [n \in CacheNames |-> 0]
NoContents == [i \in 1..MaxInodes |-> <<>>]

\* the tuple update_cache has not returned yet
NoAnswer == <<FALSE, "", "">>

\* a process outside update_cache: no descriptor, no entry
NotUpdating == [pc |-> "idle", fd |-> 0, off |-> 0, entry |-> 0, size |-> 0, answer |-> NoAnswer]

\* get_cached_data has not been called
NotRead == [kind |-> "not read", data |-> <<>>]

CacheFileIdle ==
    /\ cf_dir = NoNames /\ cf_inodes = NoContents /\ upd = [w \in Writers |-> NotUpdating] /\ got = NotRead

ScanInit ==
    /\ ParseIdle /\ MatchIdle /\ StaticIdle /\ PromptsIdle /\ AnalyzeIdle /\ DetectIdle /\ FisIdle /\ ResetIdle /\ CacheFileIdle
    /\ content \in ScanTexts
    /\ start_pos \in 0..Len(content)
    /\ pos = 0
    /\ depth = 0
    /\ quote = None
    /\ scan_pc = "entry"
    \* nothing returned yet: an integer the function never returns
    /\ scan_result = -2

\* the guard  start_pos >= len(content) or content[start_pos] != '('
NotAtOpenParen(c, p) == IF p >= Len(c) THEN TRUE ELSE At(c, p) # LPAREN

\* if start_pos >= len(content) or content[start_pos] != '(': return -1
ScanReject ==
    /\ scan_pc = "entry"
    /\ NotAtOpenParen(content, start_pos)
    /\ scan_pc' = "done"
    /\ scan_result' = -1
    /\ UNCHANGED <<content, start_pos, pos, depth, quote>>
    /\ UNCHANGED notScanVars

\* depth = 1; pos = start_pos + 1
ScanEnter ==
    /\ scan_pc = "entry"
    /\ ~NotAtOpenParen(content, start_pos)
    /\ depth' = 1
    /\ pos' = start_pos + 1
    /\ scan_pc' = "outer"
    /\ UNCHANGED <<content, start_pos, quote, scan_result>>
    /\ UNCHANGED notScanVars

OuterCond == pos < Len(content) /\ depth > 0

\* if content[pos] == '(': depth += 1 ... pos += 1
OuterOpen ==
    /\ scan_pc = "outer" /\ OuterCond
    /\ At(content, pos) = LPAREN
    /\ depth' = depth + 1
    /\ pos' = pos + 1
    /\ UNCHANGED <<content, start_pos, quote, scan_pc, scan_result>>
    /\ UNCHANGED notScanVars

\* elif content[pos] == ')': depth -= 1; if depth == 0: return pos
OuterClose ==
    /\ scan_pc = "outer" /\ OuterCond
    /\ At(content, pos) = RPAREN
    /\ depth' = depth - 1
    /\ IF depth - 1 = 0
       THEN /\ scan_pc' = "done"
            /\ scan_result' = pos
            /\ pos' = pos
       ELSE /\ pos' = pos + 1
            /\ UNCHANGED <<scan_pc, scan_result>>
    /\ UNCHANGED <<content, start_pos, quote>>
    /\ UNCHANGED notScanVars

\* elif content[pos] in ['"', "'"]: quote = content[pos]; pos += 1
OuterQuote ==
    /\ scan_pc = "outer" /\ OuterCond
    /\ At(content, pos) \in {DQUOTE, SQUOTE}
    /\ quote' = At(content, pos)
    /\ pos' = pos + 1
    /\ scan_pc' = "inner"
    /\ UNCHANGED <<content, start_pos, depth, scan_result>>
    /\ UNCHANGED notScanVars

\* any other character: pos += 1
OuterOther ==
    /\ scan_pc = "outer" /\ OuterCond
    /\ At(content, pos) \notin {LPAREN, RPAREN, DQUOTE, SQUOTE}
    /\ pos' = pos + 1
    /\ UNCHANGED <<content, start_pos, depth, quote, scan_pc, scan_result>>
    /\ UNCHANGED notScanVars

\* while condition false: return -1
OuterExit ==
    /\ scan_pc = "outer" /\ ~OuterCond
    /\ scan_pc' = "done"
    /\ scan_result' = -1
    /\ UNCHANGED <<content, start_pos, pos, depth, quote>>
    /\ UNCHANGED notScanVars

\* the code's test for the end of a literal:
\*   content[pos] == quote and content[pos-1] != '\\'
ClosesLiteral(c, p, q) == At(c, p) = q /\ At(c, p - 1) # BSLASH

\* inner while: the literal ends here: break, then the outer pos += 1
InnerBreak ==
    /\ scan_pc = "inner" /\ pos < Len(content)
    /\ ClosesLiteral(content, pos, quote)
    /\ pos' = pos + 1
    /\ scan_pc' = "outer"
    /\ UNCHANGED <<content, start_pos, depth, quote, scan_result>>
    /\ UNCHANGED notScanVars

\* an inner loop whose body forgets  pos += 1
InnerSkip_Stay ==
    /\ scan_pc = "inner" /\ pos < Len(content)
    /\ ~ClosesLiteral(content, pos, quote)
    /\ UNCHANGED <<content, start_pos, pos, depth, quote, scan_pc, scan_result>>
    /\ UNCHANGED notScanVars

\* inner while: pos += 1
InnerSkip ==
    /\ scan_pc = "inner" /\ pos < Len(content)
    /\ ~ClosesLiteral(content, pos, quote)
    /\ pos' = pos + 1
    /\ UNCHANGED <<content, start_pos, depth, quote, scan_pc, scan_result>>
    /\ UNCHANGED notScanVars

\* inner while runs off the end of the text, then the outer pos += 1
InnerExhaust ==
    /\ scan_pc = "inner" /\ ~(pos < Len(content))
    /\ pos' = pos + 1
    /\ scan_pc' = "outer"
    /\ UNCHANGED <<content, start_pos, depth, quote, scan_result>>
    /\ UNCHANGED notScanVars

ScanNext ==
    \/ ScanReject
    \/ ScanEnter
    \/ OuterOpen
    \/ OuterClose
    \/ OuterQuote
    \/ OuterOther
    \/ OuterExit
    \/ InnerBreak
    \/ InnerSkip
    \/ InnerExhaust

SpecScan == ScanInit /\ [][ScanNext]_vars

(***************************************************************************)
(* Reference semantics of "the parenthesis that closes it"                 *)
(***************************************************************************)
RECURSIVE BackslashRun(_, _)
\* number of consecutive backslashes ending at 0-based index i (i may be -1)
BackslashRun(c, i) ==
    IF i < 0 THEN 0
    ELSE IF At(c, i) # BSLASH THEN 0
    ELSE 1 + BackslashRun(c, i - 1)

\* a quote character at j ends the literal opened by q iff it is q and is not
\* backslash-escaped (an even number of backslashes stands right before it)
EndsLiteral(c, j, q) == At(c, j) = q /\ BackslashRun(c, j - 1) % 2 = 0

RECURSIVE CodePositions(_, _, _)
\* positions >= i of c that lie outside every string literal, lexing from i
\* with no literal open; q # None means a literal opened by q is active
CodePositions(c, i, q) ==
    IF i >= Len(c) THEN {}
    ELSE IF q = None
         THEN IF At(c, i) \in {DQUOTE, SQUOTE}
              THEN CodePositions(c, i + 1, At(c, i))
              ELSE {i} \cup CodePositions(c, i + 1, None)
         ELSE IF EndsLiteral(c, i, q)
              THEN CodePositions(c, i + 1, None)
              ELSE CodePositions(c, i + 1, q)

Balance(c, P, lo, hi) ==
    Cardinality({k \in P : lo < k /\ k < hi /\ At(c, k) = LPAREN})
    - Cardinality({k \in P : lo < k /\ k < hi /\ At(c, k) = RPAREN})

Closers(c, p) ==
    LET P == CodePositions(c, p + 1, None)
    IN {q \in P : At(c, q) = RPAREN /\ Balance(c, P, p, q) = 0}

MatchingParen(c, p) ==
    IF p >= Len(c) THEN -1
    ELSE IF At(c, p) # LPAREN THEN -1
    ELSE IF Closers(c, p) = {} THEN -1
    ELSE CHOOSE q \in Closers(c, p) : \A r \in Closers(c, p) : q <= r

\* C1: _find_matching_paren returns the index of the ')' closing the '(' at
\* start_pos, counting only parentheses outside quoted string literals, and
\* -1 when there is none, when start_pos is past the end or not at a '('.
C1_FindMatchingParenContract ==
    scan_pc = "done" => scan_result = MatchingParen(content, start_pos)

\* the scanner stands on a quote character outside a literal
MeetsQuote ==
    /\ scan_pc = "outer" /\ OuterCond
    /\ At(content, pos) \in {DQUOTE, SQUOTE}

\* the scanner stands on a character of a literal
InLiteral == scan_pc = "inner" /\ pos < Len(content)

\* C20: a quote character met outside a literal becomes the single active
\* quote; inside the literal the other quote character and all parentheses
\* are ignored, and the active quote character ends the literal exactly
\* when it is not backslash-escaped, that is when an even number (possibly
\* zero) of consecutive backslashes stands before it
C20_LiteralEndsAtUnescapedQuote ==
    [][/\ MeetsQuote => (scan_pc' = "inner" /\ quote' = At(content, pos))
       /\ InLiteral
          => /\ depth' = depth
             /\ quote' = quote
             /\ scan_pc' = "outer" <=> EndsLiteral(content, pos, quote)]_vars

\* the call runs to its return: a sequential function that can take a step
\* takes it (every step of the scan changes scan_pc or pos)
SpecScanLive == ScanInit /\ [][ScanNext]_vars /\ WF_<<scan_pc, pos>>(ScanNext)

\* an iteration of the outer or of the inner loop that does not return
LoopStep == scan_pc \in {"outer", "inner"} /\ scan_pc' # "done"

\* C21: _find_matching_paren terminates on every input: every iteration of
\* the outer and of the inner loop moves pos strictly forward and never past
\* len(content) + 1, so no character is visited twice, at most len(content)
\* iterations run, and the call reaches its return
C21_ScanTerminates ==
    /\ [][LoopStep => (pos < pos' /\ pos' <= Len(content) + 1)]_vars
    /\ <>(scan_pc = "done")

\* the scan has returned -1 on a text with unbalanced nested parentheses whose
\* last string literal is never closed
C21_Witness ==
    /\ scan_pc = "done" /\ scan_result = -1
    /\ depth >= 3 /\ quote # None /\ pos = Len(content) + 1

(***************************************************************************)
(* Regular expressions (Python's re) as used by the detector.              *)
(*                                                                         *)
(* A pattern is a tree of nodes.  Rx gives the match a backtracking        *)
(* matcher finds first at a 0-based index: greedy quantifiers take the     *)
(* longest repetition that lets the rest of the pattern match, lazy ones   *)
(* the shortest, alternatives are tried left to right.  A match is its end *)
(* index and the spans of the captured groups.                             *)
(***************************************************************************)
Chars(str) == [i \in 1..Len(str) |-> SubSeq(str, i, i)]

CharSet(str) == {SubSeq(str, i, i) : i \in 1..Len(str)}

Lit(str) == [t |-> "lit", w |-> Chars(str)]
Cls(S) == [t |-> "cls", S |-> S]
NotCls(S) == [t |-> "ncls", S |-> S]
Cat(rs) == [t |-> "cat", rs |-> rs]
Alt(rs) == [t |-> "alt", rs |-> rs]
Star(r) == [t |-> "star", r |-> r, min |-> 0]
LazyStar(r) == [t |-> "lazy", r |-> r, min |-> 0]
\* r{n,} for a one-character r
AtLeast(r, n) == [t |-> "star", r |-> r, min |-> n]
Plus(r) == Cat(<<r, Star(r)>>)
Opt(r) == [t |-> "opt", r |-> r]
Times(r, n) == Cat([k \in 1..n |-> r])
Grp(n, r) == [t |-> "grp", n |-> n, r |-> r]

DigitChars == CharSet("0123456789")
LowerChars == CharSet("abcdefghijklmnopqrstuvwxyz")
UpperChars == CharSet("ABCDEFGHIJKLMNOPQRSTUVWXYZ")
SpaceChars == {" ", "\n", "\t"}
WordChars == DigitChars \cup LowerChars \cup UpperChars \cup {"_"}

Digit == Cls(DigitChars)
AnyChar == NotCls({})
WordBoundary == [t |-> "bow"]
Eos == [t |-> "eos"]

Least(S) == CHOOSE x \in S : \A y \in S : x <= y
Greatest(S) == CHOOSE x \in S : \A y \in S : x >= y

HasAt(s, i, w) ==
    IF i + Len(w) > Len(s) THEN FALSE
    ELSE SubSeq(s, i + 1, i + Len(w)) = w

Accepted(node, c) == IF node.t = "cls" THEN c \in node.S ELSE c \notin node.S

\* how many characters from index i on a one-character node accepts in a row
Run(node, s, i) ==
    LET stops(j) == IF j = Len(s) THEN TRUE ELSE ~Accepted(node, At(s, j))
    IN (CHOOSE j \in i..Len(s) : stops(j) /\ \A m \in i..(j - 1) : ~stops(m)) - i

\* \b: exactly one of the characters before and after index i is a word character
WordAt(s, j) == IF j < 0 \/ j >= Len(s) THEN FALSE ELSE At(s, j) \in WordChars
AtWordBoundary(s, i) == WordAt(s, i - 1) # WordAt(s, i)

\* Rx(todo, s, i, g): the nodes of todo matched one after the other from
\* index i on with the groups g captured so far; <<>> when they cannot be
RECURSIVE Rx(_, _, _, _)
Rx(todo, s, i, g) ==
    IF todo = <<>> THEN <<[e |-> i, g |-> g]>>
    ELSE
    LET h == Head(todo)
        k == Tail(todo)
    IN CASE h.t = "lit" ->
              IF HasAt(s, i, h.w) THEN Rx(k, s, i + Len(h.w), g) ELSE <<>>
         [] h.t \in {"cls", "ncls"} ->
              IF i >= Len(s) THEN <<>>
              ELSE IF Accepted(h, At(s, i)) THEN Rx(k, s, i + 1, g) ELSE <<>>
         [] h.t = "eos" -> IF i = Len(s) THEN Rx(k, s, i, g) ELSE <<>>
         [] h.t = "bow" -> IF AtWordBoundary(s, i) THEN Rx(k, s, i, g) ELSE <<>>
         [] h.t = "cat" -> Rx(h.rs \o k, s, i, g)
         [] h.t = "alt" ->
              LET first == Rx(<<h.rs[1]>> \o k, s, i, g)
              IN IF Len(h.rs) = 1 THEN first
                 ELSE IF first # <<>> THEN first
                 ELSE Rx(<<Alt(Tail(h.rs))>> \o k, s, i, g)
         [] h.t = "opt" ->
              LET with == Rx(<<h.r>> \o k, s, i, g)
              IN IF with # <<>> THEN with ELSE Rx(k, s, i, g)
         [] h.t = "grp" ->
              Rx(<<h.r, [t |-> "gclose", n |-> h.n, b |-> i]>> \o k, s, i, g)
         [] h.t = "gclose" -> Rx(k, s, i, [g EXCEPT ![h.n] = <<h.b, i>>])
         [] h.t \in {"star", "lazy"} ->
              IF h.r.t \in {"cls", "ncls"}
              THEN \* a run of single characters: the longest (greedy) or the
                   \* shortest (lazy) after which the rest matches
                   LET lo == i + h.min
                       hi == i + Run(h.r, s, i)
                       tried == [n \in 1..(hi - lo + 1) |-> Rx(k, s, lo + n - 1, g)]
                       ok == SelectSeq(tried, LAMBDA m : m # <<>>)
                   IN IF ok = <<>> THEN <<>>
                      ELSE IF h.t = "star" THEN ok[Len(ok)]
                      ELSE ok[1]
              ELSE LET more == Rx(<<h.r, [t |-> "loop", r |-> h, from |-> i]>> \o k,
                                  s, i, g)
                   IN IF h.t = "star"
                      THEN IF more # <<>> THEN more ELSE Rx(k, s, i, g)
                      ELSE LET stop == Rx(k, s, i, g)
                           IN IF stop # <<>> THEN stop ELSE more
         [] h.t = "loop" -> IF i > h.from THEN Rx(<<h.r>> \o k, s, i, g) ELSE <<>>

NoMatch == [found |-> FALSE, b |-> 0, e |-> 0, g |-> NoGroups]

\* what a match of r can begin with: the characters S, or any character
\* (any), or nothing at all when r can match without taking a character (nul)
RECURSIVE First(_)
First(r) ==
    LET nothing == [S |-> {}, any |-> FALSE, nul |-> TRUE]
        either(a, b) == [S |-> a.S \cup b.S, any |-> a.any \/ b.any, nul |-> a.nul \/ b.nul]
        then(a, b) == IF a.nul
                      THEN [S |-> a.S \cup b.S, any |-> a.any \/ b.any, nul |-> b.nul]
                      ELSE a
    IN CASE r.t = "lit" -> [S |-> {r.w[1]}, any |-> FALSE, nul |-> FALSE]
         [] r.t = "cls" -> [S |-> r.S, any |-> FALSE, nul |-> FALSE]
         [] r.t = "ncls" -> [S |-> {}, any |-> TRUE, nul |-> FALSE]
         [] r.t = "cat" ->
              IF r.rs = <<>> THEN nothing
              ELSE then(First(r.rs[1]), First(Cat(Tail(r.rs))))
         [] r.t = "alt" ->
              IF Len(r.rs) = 1 THEN First(r.rs[1])
              ELSE either(First(r.rs[1]), First(Alt(Tail(r.rs))))
         [] r.t \in {"star", "lazy"} ->
              IF r.min = 0 THEN either(First(r.r), nothing) ELSE First(r.r)
         [] r.t = "opt" -> either(First(r.r), nothing)
         [] r.t = "grp" -> First(r.r)
         [] OTHER -> nothing

\* the match that begins at index b, from what the matcher found there
HitOf(m, b) ==
    IF m = <<>> THEN NoMatch
    ELSE [found |-> TRUE, b |-> b, e |-> m[1].e, g |-> m[1].g]

\* the match of r that begins at index b, if there is one
Hit(r, s, b) == HitOf(Rx(<<r>>, s, b, NoGroups), b)

\* whether a match that begins as first says can begin at index j of s
Begins(first, s, j) ==
    first.any \/ first.nul \/ (j < Len(s) /\ At(s, j) \in first.S)

MatchesFrom(first, r, s) ==
    SelectSeq([n \in 1..(Len(s) + 1) |->
                  IF Begins(first, s, n - 1) THEN Hit(r, s, n - 1) ELSE NoMatch],
              LAMBDA m : m.found)

\* the matches of r at every index of s that has one, from left to right;
\* an index whose character no match can begin with is passed over
Matches(r, s) == MatchesFrom(First(r), r, s)

\* re.match(r, s): the match anchored at the start of s
RxMatch(r, s) == Hit(r, s, 0)

Leftmost(all) == IF all = <<>> THEN NoMatch ELSE all[1]

\* re.search(r, s): the leftmost match
RxSearch(r, s) == Leftmost(Matches(r, s))

\* re.finditer(r, s), re.findall(r, s): the matches from left to right, each
\* scan going on where the last match ended
RECURSIVE RxFrom(_, _)
RxFrom(all, i) ==
    IF all = <<>> THEN <<>>
    ELSE LET m == Head(all)
         IN IF m.b < i THEN RxFrom(Tail(all), i)
            ELSE <<m>> \o RxFrom(Tail(all), IF m.e > m.b THEN m.e ELSE m.b + 1)

RxFindAll(r, s) == RxFrom(Matches(r, s), 0)

\* match.group(n), None for a group that took no part in the match
Group(s, m, n) ==
    IF m.g[n] = None THEN NoText ELSE SubSeq(s, m.g[n][1] + 1, m.g[n][2])

\* match.group(1) of a search, None when nothing matched
Group1(s, m) == IF m.found THEN Group(s, m, 1) ELSE NoText

\* "w in s" for strings
Contains(s, str) == \E i \in 0..Len(s) : HasAt(s, i, Chars(str))

\* str.lower() on the characters the model uses
LowerChar(c) ==
    LET U == Chars("ABCDEFGHIJKLMNOPQRSTUVWXYZ")
        L == Chars("abcdefghijklmnopqrstuvwxyz")
    IN IF c \in UpperChars THEN L[CHOOSE k \in 1..26 : U[k] = c] ELSE c

Lower(s) == [k \in 1..Len(s) |-> LowerChar(s[k])]

UpperChar(c) ==
    LET U == Chars("ABCDEFGHIJKLMNOPQRSTUVWXYZ")
        L == Chars("abcdefghijklmnopqrstuvwxyz")
    IN IF c \in LowerChars THEN U[CHOOSE k \in 1..26 : L[k] = c] ELSE c

Upper(s) == [k \in 1..Len(s) |-> UpperChar(s[k])]

(***************************************************************************)
(* Model-ID parser: BedrockDetector._parse_model_id                        *)
(***************************************************************************)
\* r'^(global|us|eu|apac)\.'
RegionRx ==
    Cat(<<Grp(1, Alt(<<Lit("global"), Lit("us"), Lit("eu"), Lit("apac")>>)), Lit(".")>>)

\* r'^([a-z0-9]+)\.'
ProviderRx == Cat(<<Grp(1, Plus(Cls(LowerChars \cup DigitChars))), Lit(".")>>)

TierWord == Alt(<<Lit("sonnet"), Lit("haiku"), Lit("opus")>>)

\* version_patterns, each with the number of groups it declares
version_patterns == <<
    \* r'claude-(\d+)-(\d+)-(?:sonnet|haiku|opus)'
    [n |-> 2, rx |-> Cat(<<Lit("claude-"), Grp(1, Plus(Digit)), Lit("-"),
                           Grp(2, Plus(Digit)), Lit("-"), TierWord>>)],
    \* r'(?:sonnet|haiku|opus)-(\d+)-(\d+)-\d{8}'
    [n |-> 2, rx |-> Cat(<<TierWord, Lit("-"), Grp(1, Plus(Digit)), Lit("-"),
                           Grp(2, Plus(Digit)), Lit("-"), Times(Digit, 8)>>)],
    \* r'(?:sonnet|haiku|opus)-(\d+)-\d{8}'
    [n |-> 1, rx |-> Cat(<<TierWord, Lit("-"), Grp(1, Plus(Digit)), Lit("-"),
                           Times(Digit, 8)>>)],
    \* r'claude-(\d+)-(\d+)'
    [n |-> 2, rx |-> Cat(<<Lit("claude-"), Grp(1, Plus(Digit)), Lit("-"),
                           Grp(2, Plus(Digit))>>)],
    \* r'claude-(\d+\.\d+)'
    [n |-> 1, rx |-> Cat(<<Lit("claude-"),
                           Grp(1, Cat(<<Plus(Digit), Lit("."), Plus(Digit)>>))>>)]
>>

\* f"{a}.{b}"
Dotted(a, b) == a \o <<".">> \o b

\* the first word of ws that the text contains, None when it contains none
RECURSIVE FirstContained(_, _, _)
FirstContained(s, ws, k) ==
    IF k > Len(ws) THEN NoText
    ELSE IF Contains(s, ws[k]) THEN Chars(ws[k])
    ELSE FirstContained(s, ws, k + 1)

\* if "opus" in ... elif "sonnet" in ... elif "haiku" in ...
AnthropicTier(model_lower) ==
    FirstContained(model_lower, <<"opus", "sonnet", "haiku">>, 1)

\* f"{match.group(1)}.{match.group(2)}"
DottedGroups(s, m) == Dotted(Group(s, m, 1), Group(s, m, 2))

\* if len(match.groups()) == 2: f"{group(1)}.{group(2)}" else: group(1)
MatchVersion(s, n, m, otherwise) ==
    IF m.found THEN IF n = 2 THEN DottedGroups(s, m) ELSE Group(s, m, 1)
    ELSE otherwise

\* the version pattern p gives, otherwise what the later patterns give
PatternVersion(s, p, otherwise) == MatchVersion(s, p.n, RxSearch(p.rx, s), otherwise)

\* for pattern in version_patterns: ... break
RECURSIVE AnthropicVersionFrom(_, _)
AnthropicVersionFrom(model_lower, k) ==
    IF k > Len(version_patterns) THEN NoText
    ELSE PatternVersion(model_lower, version_patterns[k],
                        AnthropicVersionFrom(model_lower, k + 1))

AnthropicVersion(model_lower) == AnthropicVersionFrom(model_lower, 1)

\* mutant: "pro" tested before "premier"
NovaTier_ProFirst(model_lower) ==
    FirstContained(model_lower,
        <<"pro", "premier", "lite", "micro", "canvas", "reel", "sonic">>, 1)

\* if "premier" in ... elif "pro" ... "lite" ... "micro" ... "canvas" ... "reel" ... "sonic"
NovaTier(model_lower) ==
    FirstContained(model_lower,
        <<"premier", "pro", "lite", "micro", "canvas", "reel", "sonic">>, 1)

\* r'-v(\d+):(\d+)'
NovaVersionRx ==
    Cat(<<Lit("-v"), Grp(1, Plus(Digit)), Lit(":"), Grp(2, Plus(Digit))>>)

NovaVersion(model_lower) ==
    MatchVersion(model_lower, 2, RxSearch(NovaVersionRx, model_lower), NoText)

\* if "embed" in ... elif "text" ... elif "image"
TitanTier(model_lower) ==
    FirstContained(model_lower, <<"embed", "text", "image">>, 1)

\* r'-v(\d+)'
TitanVersion(model_lower) ==
    Group1(model_lower, RxSearch(Cat(<<Lit("-v"), Grp(1, Plus(Digit))>>), model_lower))

\* version = group(1); if group(2): version = f"{group(1)}.{group(2)}"
OptionalMinor(s, m) ==
    IF m.found
    THEN IF Group(s, m, 2) # NoText THEN DottedGroups(s, m) ELSE Group(s, m, 1)
    ELSE NoText

\* r'llama(\d+)(?:-(\d+))?'
LlamaVersion(model_lower) ==
    OptionalMinor(model_lower,
        RxSearch(Cat(<<Lit("llama"), Grp(1, Plus(Digit)),
                       Opt(Cat(<<Lit("-"), Grp(2, Plus(Digit))>>))>>),
                 model_lower))

\* r'(\d+)b' -> f"{size}b"
SizeTier(size) == IF size = NoText THEN NoText ELSE size \o <<"b">>

LlamaTier(model_lower) ==
    SizeTier(Group1(model_lower,
                    RxSearch(Cat(<<Grp(1, Plus(Digit)), Lit("b")>>), model_lower)))

\* r'-v(\d+)(?::(\d+))?'
GenericVersion(model_lower) ==
    OptionalMinor(model_lower,
        RxSearch(Cat(<<Lit("-v"), Grp(1, Plus(Digit)),
                       Opt(Cat(<<Lit(":"), Grp(2, Plus(Digit))>>))>>),
                 model_lower))

\* the region prefix recorded from the lowered identifier
RegionPrefix(lowered) == Group1(lowered, RxMatch(RegionRx, lowered))

\* s[len(match.group(0)):] for a match at the start of s
AfterMatch(s, m) == IF m.found THEN SubSeq(s, m.e + 1, Len(s)) ELSE s

\* mutant: the region prefix is recorded but left in place
StripRegion_Keep(lowered) == lowered

\* model_lower = model_lower[len(region_match.group(0)):]
StripRegion(lowered) == AfterMatch(lowered, RxMatch(RegionRx, lowered))

\* mutant: the provider is never recorded
Provider_Unread(model_lower) == NoText

Provider(model_lower) == Group1(model_lower, RxMatch(ProviderRx, model_lower))

\* mutant: an unrecognized provider is taken as its own family
FamilyFields_ProviderAsFamily(model_lower, provider) ==
    [family |-> provider, tier |-> NoText, version |-> NoText]

\* the family / version / tier branch taken on the stripped, lowered identifier
FamilyFields(model_lower, provider) ==
    IF Contains(model_lower, "anthropic")
    THEN [family |-> Chars("claude"),
          tier |-> AnthropicTier(model_lower),
          version |-> AnthropicVersion(model_lower)]
    ELSE IF Contains(model_lower, "amazon")
    THEN IF Contains(model_lower, "nova")
         THEN [family |-> Chars("nova"),
               tier |-> NovaTier(model_lower),
               version |-> NovaVersion(model_lower)]
         ELSE IF Contains(model_lower, "titan")
         THEN [family |-> Chars("titan"),
               tier |-> TitanTier(model_lower),
               version |-> TitanVersion(model_lower)]
         ELSE [family |-> NoText, tier |-> NoText, version |-> NoText]
    ELSE IF Contains(model_lower, "meta")
    THEN [family |-> Chars("llama"),
          tier |-> LlamaTier(model_lower),
          version |-> LlamaVersion(model_lower)]
    ELSE IF Contains(model_lower, "mistral") \/ Contains(model_lower, "cohere")
            \/ Contains(model_lower, "ai21")
    THEN [family |-> provider, tier |-> NoText,
          version |-> GenericVersion(model_lower)]
    ELSE [family |-> NoText, tier |-> NoText, version |-> NoText]

\* result = {...}: the fields as they stand at the return
ParsedModelId(id, provider, f, region_prefix) ==
    [full_model_id |-> id,
     provider |-> provider,
     family |-> f.family,
     version |-> f.version,
     tier |-> f.tier,
     region_prefix |-> region_prefix]

_parse_model_id(id) ==
    LET lowered == Lower(id)
        model_lower == StripRegion(lowered)
        provider == Provider(model_lower)
    IN ParsedModelId(id, provider, FamilyFields(model_lower, provider),
                     RegionPrefix(lowered))

(***************************************************************************)
(* The identifiers handed to _parse_model_id                               *)
(***************************************************************************)
MaxTokens == 3

Regions == {"global", "us", "eu", "apac"}
ClaudeTiers == <<"opus", "sonnet", "haiku">>
NovaTiers == <<"premier", "pro", "lite", "micro", "canvas", "reel", "sonic">>
SeqRange(q) == {q[k] : k \in 1..Len(q)}

\* the layouts of Anthropic identifiers, e.g. claude-3-7-sonnet-20250219
ClaudeLayouts == {"M-m-tier-date", "tier-M-m-date", "tier-M-date", "M-m",
                  "M.m-tier", "M-tier-date"}

Src(kind, region, layout, major, minor, tier, extra, upper, toks) ==
    [kind |-> kind, region |-> region, layout |-> layout, major |-> major,
     minor |-> minor, tier |-> tier, extra |-> extra, upper |-> upper,
     toks |-> toks]

ClaudeSrcs ==
    {Src("claude", r, l, M, m, t, x, u, <<>>) :
        r \in Regions \cup {None}, l \in ClaudeLayouts, M \in {"3", "4"},
        m \in {"5", "7"}, t \in SeqRange(ClaudeTiers),
        x \in SeqRange(ClaudeTiers) \cup {None}, u \in BOOLEAN}

NovaSrcs ==
    {Src("nova", r, None, M, m, t, x, u, <<>>) :
        r \in Regions \cup {None}, M \in {"1", "2"}, m \in {"0", "1"},
        t \in SeqRange(NovaTiers), x \in SeqRange(NovaTiers) \cup {None},
        u \in BOOLEAN}

\* fragments from which arbitrary (mostly malformed) identifiers are composed
Fragments ==
    {"us.", "anthropic.", "amazon.", "meta.", "mistral.", "cohere.", "ai21.",
     "stability.", "nova-", "titan-", "claude-3-", "llama3-70b", "opus",
     "embed", "-v1:0", "x"}

FreeSrcs ==
    {Src("free", None, None, None, None, None, None, u, q) :
        q \in StringsUpTo(Fragments, MaxTokens), u \in {FALSE}}
    \cup {Src("free", None, None, None, None, None, None, TRUE, <<f>>) :
        f \in Fragments}

\* identifiers of the providers the parser has no branch for, each with and
\* without a region prefix, in lower and in upper case
OtherIds ==
    {"stability.sd3-large-v1:0", "deepseek.r1-v1:0", "openai.gpt-oss-120b-1:0",
     "qwen.qwen3-32b-v1:0", "twelvelabs.pegasus-1-2-v1:0"}

OtherSrcs ==
    {Src("free", None, None, None, None, None, None, u, <<r, id>>) :
        r \in {"", "global.", "us.", "eu.", "apac."}, id \in OtherIds,
        u \in BOOLEAN}

RECURSIVE Join(_)
Join(q) == IF q = <<>> THEN <<>> ELSE Chars(Head(q)) \o Join(Tail(q))

ClaudeBody(src) ==
    LET d == "-20250219"
    IN CASE src.layout = "M-m-tier-date" ->
              <<"claude-", src.major, "-", src.minor, "-", src.tier, d>>
         [] src.layout = "tier-M-m-date" ->
              <<"claude-", src.tier, "-", src.major, "-", src.minor, d>>
         [] src.layout = "tier-M-date" ->
              <<"claude-", src.tier, "-", src.major, d>>
         [] src.layout = "M-m" ->
              <<"claude-", src.major, "-", src.minor>>
         [] src.layout = "M.m-tier" ->
              <<"claude-", src.major, ".", src.minor, "-", src.tier>>
         [] src.layout = "M-tier-date" ->
              <<"claude-", src.major, "-", src.tier, d>>

Prefix(src) == IF src.region = None THEN <<>> ELSE <<src.region, ".">>
Extra(src) == IF src.extra = None THEN <<>> ELSE <<"-", src.extra>>

IdText(src) ==
    LET lower ==
          CASE src.kind = "claude" ->
                 Join(Prefix(src) \o <<"anthropic.">> \o ClaudeBody(src)
                      \o <<"-v1:0">> \o Extra(src))
            [] src.kind = "nova" ->
                 Join(Prefix(src) \o <<"amazon.nova-", src.tier>> \o Extra(src)
                      \o <<"-v", src.major, ":", src.minor>>)
            [] src.kind = "free" -> Join(src.toks)
    IN IF src.upper THEN Upper(lower) ELSE lower

ParseInit ==
    /\ ScanIdle /\ MatchIdle /\ StaticIdle /\ PromptsIdle /\ AnalyzeIdle /\ DetectIdle /\ FisIdle /\ ResetIdle /\ CacheFileIdle
    /\ id_src \in ClaudeSrcs \cup NovaSrcs \cup FreeSrcs \cup OtherSrcs
    /\ model_id = IdText(id_src)
    /\ parsed = None
    /\ parse_pc = "call"

ParseModelId ==
    /\ parse_pc = "call"
    /\ parsed' = _parse_model_id(model_id)
    /\ parse_pc' = "done"
    /\ UNCHANGED <<model_id, id_src>>
    /\ UNCHANGED notParseVars

ParseNext == ParseModelId

SpecParse == ParseInit /\ [][ParseNext]_vars

(***************************************************************************)
(* Properties of the parser                                                *)
(***************************************************************************)
TextOrNone(x) == IF x = None THEN NoText ELSE Chars(x)

\* the tier words an identifier was composed with
SrcTierWords(src) ==
    (IF src.kind = "claude" /\ src.layout = "M-m" THEN {} ELSE {src.tier})
    \cup (IF src.extra = None THEN {} ELSE {src.extra})

\* the first word of the priority list that is among ws
FirstOf(priority, ws) ==
    IF \A k \in 1..Len(priority) : priority[k] \notin ws THEN None
    ELSE priority[CHOOSE k \in 1..Len(priority) :
                    /\ priority[k] \in ws
                    /\ \A j \in 1..(k - 1) : priority[j] \notin ws]

\* the version an Anthropic identifier was composed with
SrcClaudeVersion(src) ==
    CASE src.layout \in {"M-m-tier-date", "tier-M-m-date", "M-m", "M.m-tier"} ->
           Chars(src.major) \o <<".">> \o Chars(src.minor)
      [] src.layout = "tier-M-date" -> Chars(src.major)
      [] src.layout = "M-tier-date" -> NoText

SpecExampleClaude == Chars("us.anthropic.claude-3-7-sonnet-20250219-v1:0")
SpecExampleNova == Chars("amazon.nova-pro-v1:0")

\* C3: on an Anthropic identifier the parser lowercases the input, records and
\* strips the region prefix before reading the provider, sets family "claude",
\* takes the first of opus, sonnet, haiku it contains as tier and the version
\* from the first version pattern that matches; the spec's example parses to
\* anthropic / claude / sonnet / 3.7 / us.
C3_AnthropicParse ==
    /\ (parse_pc = "done" /\ id_src.kind = "claude") =>
          /\ parsed.provider = Chars("anthropic")
          /\ parsed.family = Chars("claude")
          /\ parsed.tier = TextOrNone(FirstOf(ClaudeTiers, SrcTierWords(id_src)))
          /\ parsed.version = SrcClaudeVersion(id_src)
          /\ parsed.region_prefix = TextOrNone(id_src.region)
    /\ (parse_pc = "done" /\ model_id = SpecExampleClaude) =>
          /\ parsed.provider = Chars("anthropic")
          /\ parsed.family = Chars("claude")
          /\ parsed.tier = Chars("sonnet")
          /\ parsed.version = Chars("3.7")
          /\ parsed.region_prefix = Chars("us")

C3_Witness ==
    /\ parse_pc = "done"
    /\ model_id = SpecExampleClaude
    /\ parsed.version = Chars("3.7")
    /\ parsed.region_prefix = Chars("us")

\* C4: on an Amazon Nova identifier family is "nova", tier is the first of
\* premier, pro, lite, micro, canvas, reel, sonic it contains, version is
\* major.minor from the -v<major>:<minor> suffix, and region_prefix is None
\* without a prefix; amazon.nova-pro-v1:0 parses to nova / pro / 1.0 / None.
C4_NovaParse ==
    /\ (parse_pc = "done" /\ id_src.kind = "nova") =>
          /\ parsed.family = Chars("nova")
          /\ parsed.tier = TextOrNone(FirstOf(NovaTiers, SrcTierWords(id_src)))
          /\ parsed.version = Chars(id_src.major) \o <<".">> \o Chars(id_src.minor)
          /\ parsed.region_prefix = TextOrNone(id_src.region)
    /\ (parse_pc = "done" /\ model_id = SpecExampleNova) =>
          /\ parsed.family = Chars("nova")
          /\ parsed.tier = Chars("pro")
          /\ parsed.version = Chars("1.0")
          /\ parsed.region_prefix = NoText

C4_Witness ==
    /\ parse_pc = "done"
    /\ model_id = SpecExampleNova
    /\ parsed.tier = Chars("pro")
    /\ parsed.region_prefix = NoText

ProviderTokens == {"anthropic", "amazon", "meta", "mistral", "cohere", "ai21"}

NoProviderToken(id) == \A w \in ProviderTokens : ~Contains(Lower(id), w)

\* C5: the parser returns, for every input, a record with exactly the fields
\* full_model_id, provider, family, version, tier, region_prefix, where
\* full_model_id is the unmodified input; without a recognized provider token
\* family, tier and version are None.
C5_ParseTotal ==
    parse_pc = "done" =>
        /\ DOMAIN parsed = {"full_model_id", "provider", "family", "version",
                            "tier", "region_prefix"}
        /\ parsed.full_model_id = model_id
        /\ NoProviderToken(model_id) =>
              /\ parsed.family = NoText
              /\ parsed.tier = NoText
              /\ parsed.version = NoText

C5_Witness ==
    /\ parse_pc = "done"
    /\ id_src.kind = "free"
    /\ NoProviderToken(model_id)
    /\ parsed.provider = Chars("stability")
    /\ parsed.region_prefix = Chars("us")
    /\ parsed.family = NoText

(***************************************************************************)
(* Regular-expression matching as the backtracking search of Python's re   *)
(* module, one matcher step per action.  A job is one re.finditer,         *)
(* re.findall, re.search or re.match call of the code: the pattern named   *)
(* by its kind, the subject text and the position of the next attempt.     *)
(* rx_frames holds the calls still to make, the next one first; a scanning *)
(* call interrupted by the processing of a hit waits there.                *)
(***************************************************************************)

MaxNesting == 50

Space == Cls(SpaceChars)
NotParen == NotCls({LPAREN, RPAREN})

\* [^()]*(?:\([^()]*\)[^()]*)*
UnrolledParens ==
    Cat(<<Star(NotParen),
          Star(Cat(<<Lit("("), Star(NotParen), Lit(")"), Star(NotParen)>>))>>)

SystemPromptEq == Cat(<<Lit("system_prompt"), Star(Space), Lit("="), Star(Space)>>)

Quote == Cls({DQUOTE, SQUOTE})
NotQuote == NotCls({DQUOTE, SQUOTE})

\* the patterns of _detect_strands_bedrock_model, _analyze_model_tier,
\* _analyze_system_prompt_staticness and _analyze_prompt_staticness_file_level
JobRx(kind) ==
    CASE kind = "strands" ->
           Cat(<<Lit("BedrockModel"), Star(Space), Lit("("),
                 Grp(1, UnrolledParens), Lit(")")>>)
      [] kind = "model_id" ->
           Cat(<<Lit("model_id"), Star(Space), Lit("="), Star(Space), Quote,
                 Grp(1, Plus(NotQuote)), Quote>>)
      [] kind = "streaming" ->
           Cat(<<Lit("streaming"), Star(Space), Lit("="), Star(Space),
                 Grp(1, Alt(<<Lit("true"), Lit("false")>>))>>)
      [] kind = "claude_version" ->
           Cat(<<Lit("claude-"),
                 Grp(1, Cat(<<Plus(Digit), Opt(Cat(<<Lit("."), Plus(Digit)>>))>>))>>)
      [] kind = "fstr1" ->
           Cat(<<SystemPromptEq,
                 Grp(1, Cat(<<Lit("f\"\"\""), LazyStar(AnyChar), Lit("\"\"\"")>>))>>)
      [] kind = "fstr2" ->
           Cat(<<SystemPromptEq,
                 Grp(1, Cat(<<Lit("f'''"), LazyStar(AnyChar), Lit("'''")>>))>>)
      [] kind = "fstr3" ->
           Cat(<<SystemPromptEq,
                 Grp(1, Cat(<<Lit("f\""), Star(NotCls({DQUOTE})), Lit("\"")>>))>>)
      [] kind = "fstr4" ->
           Cat(<<SystemPromptEq,
                 Grp(1, Cat(<<Lit("f'"), Star(NotCls({SQUOTE})), Lit("'")>>))>>)
      [] kind = "var" ->
           Cat(<<Lit("{"), Grp(1, Plus(NotCls({"}"}))), Lit("}")>>)
      [] kind = "ident" ->
           Cat(<<Cls(LowerChars \cup UpperChars \cup {"_"}), Star(Cls(WordChars)), Eos>>)
      [] kind = "paren" ->
           Cat(<<SystemPromptEq, Lit("("), Grp(1, UnrolledParens), Lit(")")>>)
      [] kind = "fstring" ->
           Cat(<<Lit("f"), Quote, Grp(1, Star(NotQuote)), Quote>>)
      [] kind = "format" ->
           Cat(<<SystemPromptEq, Quote, LazyStar(AnyChar), Quote, Lit(".format(")>>)
      [] kind = "fl_fstring" ->
           Cat(<<Lit("f"), Quote, LazyStar(AnyChar), Lit("{"), Plus(NotCls({"}"})),
                 Lit("}"), LazyStar(AnyChar), Quote>>)
      [] kind = "fl_format" -> Lit(".format(")
      [] kind = "fl_concat" ->
           Cat(<<Quote, LazyStar(NotCls({"\n"})), Quote, Lit("\\"), Star(Lit("s")),
                 Lit("+"), Lit("\\"), Star(Lit("s")),
                 Cls(LowerChars \cup UpperChars \cup {"_"})>>)
      [] kind = "fl_percent" -> Cat(<<Lit("%"), Star(Space), Lit("(")>>)

\* re.search stops at the first hit, re.match tries position 0 only,
\* re.finditer and re.findall go on after each hit
JobMode(kind) ==
    IF kind \in {"model_id", "streaming", "claude_version", "format"} THEN "search"
    ELSE IF kind = "ident" THEN "match"
    ELSE "finditer"

Job(kind, text) == [kind |-> kind, text |-> text, start |-> 0, hits |-> <<>>]

\* str.strip()
RECURSIVE LStrip(_)
LStrip(s) ==
    IF s = <<>> THEN s
    ELSE IF Head(s) \in SpaceChars THEN LStrip(Tail(s)) ELSE s

RECURSIVE RStrip(_)
RStrip(s) ==
    IF s = <<>> THEN s
    ELSE IF s[Len(s)] \in SpaceChars THEN RStrip(SubSeq(s, 1, Len(s) - 1)) ELSE s

Strip(s) == RStrip(LStrip(s))

\* ---- the inputs: the regression family and the legitimate uses ----

Repeat(c, n) == [k \in 1..n |-> c]

\* prefix + "(" * n + "test" + ")" * closers
NestedText(prefix, n, closers) ==
    Chars(prefix) \o Repeat(LPAREN, n) \o Chars("test") \o Repeat(RPAREN, closers)

legitimate_bedrock ==
    Chars("\nbedrock_model = BedrockModel(\n    model_id=\"anthropic.claude-3-sonnet-20240229-v1:0\",\n    temperature=0.1,\n    streaming=True\n)\n")

legitimate_prompt ==
    Chars("\nagent = Agent(\n    system_prompt=(\n        \"You are a helpful assistant. \"\n        \"Provide clear answers. \"\n        \"Use tools when needed.\"\n    )\n)\n")

fstring_prompt == Chars("system_prompt = f\"Hello {user_name}\"\n")

concatenated_prompt == Chars("system_prompt=(f'Hi { who } ' \"and {0}\")\n")

\* "nested" is the text of test_redos_protection, "balanced" the same text
\* with the first parenthesis closed as well
MatchInputs ==
    {[fn |-> f, shape |-> sh, n |-> n] :
        f \in {"strands", "staticness"}, sh \in {"nested", "balanced"},
        n \in 0..MaxNesting}
    \cup {[fn |-> "strands", shape |-> "legitimate", n |-> 0]}
    \cup {[fn |-> "staticness", shape |-> "legitimate", n |-> k] : k \in 0..2}

InputText(in) ==
    LET prefix == IF in.fn = "strands" THEN "BedrockModel(" ELSE "system_prompt=("
    IN CASE in.shape = "nested" -> NestedText(prefix, in.n, in.n)
         [] in.shape = "balanced" -> NestedText(prefix, in.n, in.n + 1)
         [] in.shape = "legitimate" ->
              IF in.fn = "strands" THEN legitimate_bedrock
              ELSE CASE in.n = 0 -> legitimate_prompt
                     [] in.n = 1 -> fstring_prompt
                     [] in.n = 2 -> concatenated_prompt

\* the regular-expression calls a function starts with, in the order of its code
FunctionJobs(fn, text) ==
    IF fn = "strands" THEN <<Job("strands", text)>>
    ELSE [k \in 1..7 |->
            Job(<<"fstr1", "fstr2", "fstr3", "fstr4", "paren", "format",
                  "file_level">>[k], text)]

FileLevelJobs(text) ==
    [k \in 1..4 |->
        Job(<<"fl_fstring", "fl_format", "fl_concat", "fl_percent">>[k], text)]

MatchInit ==
    /\ ScanIdle /\ ParseIdle /\ StaticIdle /\ PromptsIdle /\ AnalyzeIdle /\ DetectIdle /\ FisIdle /\ ResetIdle /\ CacheFileIdle
    /\ rx_input \in MatchInputs
    /\ rx_content = InputText(rx_input)
    /\ rx_found = 0
    /\ rx_frames = FunctionJobs(rx_input.fn, rx_content)
    /\ rx_job = NoJob
    /\ rx_todo = <<>> /\ rx_pos = 0 /\ rx_stack = <<>> /\ rx_caps = NoGroups
    /\ rx_steps = 0
    /\ rx_pc = "next"

\* ---- the matcher ----

\* the nodes that test the subject at the current position; "loop" ends one
\* round of a repetition and refuses a round that consumed nothing
IsTest(node) == node.t \in {"lit", "cls", "ncls", "eos", "loop"}

Accepts(node, s, i) ==
    CASE node.t = "lit" -> HasAt(s, i, node.w)
      [] node.t = "cls" -> IF i >= Len(s) THEN FALSE ELSE At(s, i) \in node.S
      [] node.t = "ncls" -> IF i >= Len(s) THEN FALSE ELSE At(s, i) \notin node.S
      [] node.t = "eos" -> i = Len(s)
      [] node.t = "loop" -> i > node.from

Width(node) ==
    CASE node.t = "lit" -> Len(node.w)
      [] node.t \in {"cls", "ncls"} -> 1
      [] OTHER -> 0

Testing == IF rx_pc = "attempt" /\ rx_todo # <<>> THEN IsTest(Head(rx_todo)) ELSE FALSE
Refused == IF Testing THEN ~Accepts(Head(rx_todo), rx_job.text, rx_pos) ELSE FALSE

\* the first attempt of a call, or the next one after start
Attempt(job) ==
    /\ rx_job' = job
    /\ rx_todo' = <<JobRx(job.kind)>>
    /\ rx_pos' = job.start
    /\ rx_stack' = <<>>
    /\ rx_caps' = NoGroups

RxConsume ==
    /\ Testing /\ ~Refused
    /\ rx_pos' = rx_pos + Width(Head(rx_todo))
    /\ rx_todo' = IF Head(rx_todo).t = "loop"
                  THEN <<Head(rx_todo).r>> \o Tail(rx_todo)
                  ELSE Tail(rx_todo)
    /\ rx_steps' = rx_steps + 1
    /\ UNCHANGED <<rx_input, rx_content, rx_found, rx_frames, rx_job, rx_stack,
                   rx_caps, rx_pc>>
    /\ UNCHANGED notMatchVars

RxExpand ==
    /\ rx_pc = "attempt" /\ rx_todo # <<>> /\ ~Testing
    /\ LET h == Head(rx_todo)
           rest == Tail(rx_todo)
           round == <<h.r, [t |-> "loop", r |-> h, from |-> rx_pos]>> \o rest
           saved(todo) ==
               <<[todo |-> todo, pos |-> rx_pos, caps |-> rx_caps]>> \o rx_stack
       IN CASE h.t = "cat" ->
                 /\ rx_todo' = h.rs \o rest
                 /\ UNCHANGED <<rx_stack, rx_caps>>
            [] h.t = "alt" ->
                 /\ rx_todo' = <<h.rs[1]>> \o rest
                 /\ rx_stack' = IF Len(h.rs) > 1
                                THEN saved(<<Alt(Tail(h.rs))>> \o rest)
                                ELSE rx_stack
                 /\ UNCHANGED rx_caps
            [] h.t = "star" ->
                 /\ rx_todo' = round
                 /\ rx_stack' = saved(rest)
                 /\ UNCHANGED rx_caps
            [] h.t = "lazy" ->
                 /\ rx_todo' = rest
                 /\ rx_stack' = saved(round)
                 /\ UNCHANGED rx_caps
            [] h.t = "opt" ->
                 /\ rx_todo' = <<h.r>> \o rest
                 /\ rx_stack' = saved(rest)
                 /\ UNCHANGED rx_caps
            [] h.t = "grp" ->
                 /\ rx_todo' = <<h.r, [t |-> "gclose", n |-> h.n, b |-> rx_pos]>> \o rest
                 /\ UNCHANGED <<rx_stack, rx_caps>>
            [] h.t = "gclose" ->
                 /\ rx_todo' = rest
                 /\ rx_caps' = [rx_caps EXCEPT ![h.n] = <<h.b, rx_pos>>]
                 /\ UNCHANGED rx_stack
    /\ rx_steps' = rx_steps + 1
    /\ UNCHANGED <<rx_input, rx_content, rx_found, rx_frames, rx_job, rx_pos, rx_pc>>
    /\ UNCHANGED notMatchVars

\* back to the latest choice that has an alternative left
RxBacktrack ==
    /\ Refused /\ rx_stack # <<>>
    /\ rx_todo' = Head(rx_stack).todo
    /\ rx_pos' = Head(rx_stack).pos
    /\ rx_caps' = Head(rx_stack).caps
    /\ rx_stack' = Tail(rx_stack)
    /\ rx_steps' = rx_steps + 1
    /\ UNCHANGED <<rx_input, rx_content, rx_found, rx_frames, rx_job, rx_pc>>
    /\ UNCHANGED notMatchVars

\* no match at this start: a scan tries the next position
RxRestart_Stuck ==
    /\ Refused /\ rx_stack = <<>>
    /\ JobMode(rx_job.kind) # "match" /\ rx_job.start < Len(rx_job.text)
    /\ Attempt(rx_job)
    /\ rx_steps' = rx_steps + 1
    /\ UNCHANGED <<rx_input, rx_content, rx_found, rx_frames, rx_pc>>
    /\ UNCHANGED notMatchVars

RxRestart ==
    /\ Refused /\ rx_stack = <<>>
    /\ JobMode(rx_job.kind) # "match" /\ rx_job.start < Len(rx_job.text)
    /\ Attempt([rx_job EXCEPT !.start = @ + 1])
    /\ rx_steps' = rx_steps + 1
    /\ UNCHANGED <<rx_input, rx_content, rx_found, rx_frames, rx_pc>>
    /\ UNCHANGED notMatchVars

\* what the code does with the hits of a findall once it has them all
Followups(job) ==
    CASE job.kind = "var" ->
           [k \in 1..Len(job.hits) |-> Job("ident", Strip(job.hits[k]))]
      [] job.kind = "fstring" ->
           [k \in 1..Len(job.hits) |-> Job("var", job.hits[k])]
      [] OTHER -> <<>>

\* no start is left: the call is over
RxExhausted ==
    /\ Refused /\ rx_stack = <<>>
    /\ JobMode(rx_job.kind) = "match" \/ rx_job.start >= Len(rx_job.text)
    /\ rx_frames' = Followups(rx_job) \o rx_frames
    /\ rx_pc' = "next"
    /\ rx_steps' = rx_steps + 1
    /\ UNCHANGED <<rx_input, rx_content, rx_found, rx_job, rx_todo, rx_pos,
                   rx_stack, rx_caps>>
    /\ UNCHANGED notMatchVars

\* the pattern is matched from rx_job.start to rx_pos
RxFound ==
    /\ rx_pc = "attempt" /\ rx_todo = <<>>
    /\ LET kind == rx_job.kind
           hit == [found |-> TRUE, b |-> rx_job.start, e |-> rx_pos, g |-> rx_caps]
           g1 == Group(rx_job.text, hit, 1)
           after == IF rx_pos > rx_job.start THEN rx_pos ELSE rx_pos + 1
           resumed == [rx_job EXCEPT !.start = after]
           collected == [resumed EXCEPT !.hits = Append(@, g1)]
       IN /\ rx_frames' =
               CASE kind = "strands" ->
                      <<Job("model_id", g1), Job("streaming", Lower(g1)), resumed>>
                          \o rx_frames
                 [] kind = "model_id" ->
                      IF Contains(Lower(g1), "claude")
                      THEN <<Head(rx_frames), Job("claude_version", Lower(g1))>>
                               \o Tail(rx_frames)
                      ELSE rx_frames
                 [] kind \in {"fstr1", "fstr2", "fstr3", "fstr4"} ->
                      <<Job("var", g1), resumed>> \o rx_frames
                 [] kind = "paren" -> <<Job("fstring", g1), resumed>> \o rx_frames
                 [] kind \in {"var", "fstring"} -> <<collected>> \o rx_frames
                 [] kind \in {"fl_fstring", "fl_format", "fl_concat", "fl_percent"} ->
                      <<resumed>> \o rx_frames
                 [] OTHER -> rx_frames
          /\ rx_found' = IF kind \in {"fstr1", "fstr2", "fstr3", "fstr4", "paren"}
                         THEN rx_found + 1 ELSE rx_found
    /\ rx_pc' = "next"
    /\ rx_steps' = rx_steps + 1
    /\ UNCHANGED <<rx_input, rx_content, rx_job, rx_todo, rx_pos, rx_stack, rx_caps>>
    /\ UNCHANGED notMatchVars

\* the next regular-expression call of the code
RxNext ==
    /\ rx_pc = "next" /\ rx_frames # <<>>
    /\ Head(rx_frames).kind # "file_level"
    /\ Attempt(Head(rx_frames))
    /\ rx_frames' = Tail(rx_frames)
    /\ rx_pc' = "attempt"
    /\ rx_steps' = rx_steps + 1
    /\ UNCHANGED <<rx_input, rx_content, rx_found>>
    /\ UNCHANGED notMatchVars

\* if system_prompts_found == 0: return self._analyze_prompt_staticness_file_level(content)
RxFallback ==
    /\ rx_pc = "next" /\ rx_frames # <<>>
    /\ Head(rx_frames).kind = "file_level"
    /\ rx_frames' = IF rx_found = 0
                    THEN FileLevelJobs(rx_content) \o Tail(rx_frames)
                    ELSE Tail(rx_frames)
    /\ rx_steps' = rx_steps + 1
    /\ UNCHANGED <<rx_input, rx_content, rx_found, rx_job, rx_todo, rx_pos,
                   rx_stack, rx_caps, rx_pc>>
    /\ UNCHANGED notMatchVars

RxReturn ==
    /\ rx_pc = "next" /\ rx_frames = <<>>
    /\ rx_pc' = "done"
    /\ rx_steps' = rx_steps + 1
    /\ UNCHANGED <<rx_input, rx_content, rx_found, rx_frames, rx_job, rx_todo,
                   rx_pos, rx_stack, rx_caps>>
    /\ UNCHANGED notMatchVars

MatchNext ==
    \/ RxConsume
    \/ RxExpand
    \/ RxBacktrack
    \/ RxRestart
    \/ RxExhausted
    \/ RxFound
    \/ RxNext
    \/ RxFallback
    \/ RxReturn

SpecMatch == MatchInit /\ [][MatchNext]_vars

\* C2: on "BedrockModel(" + "(" * N + "test" + ")" * N given to
\* _detect_strands_bedrock_model and on "system_prompt=(" + "(" * N + "test" +
\* ")" * N given to _analyze_system_prompt_staticness, for every N up to
\* MaxNesting, the matcher never takes more than 40 steps per character of the
\* input (every action is one step) and is never stuck before the function
\* has returned: the work is linear in the length of the input and ends.
C2_LinearMatching ==
    rx_input.shape = "nested" =>
        /\ rx_steps <= 40 * (Len(rx_content) + 1)
        /\ rx_pc # "done" => ENABLED MatchNext

\* the deepest text of the family has gone through all ten patterns of the
\* system-prompt analysis, none of which matched
C2_Witness ==
    /\ rx_pc = "done"
    /\ rx_input = [fn |-> "staticness", shape |-> "nested", n |-> MaxNesting]
    /\ rx_content = NestedText("system_prompt=(", MaxNesting, MaxNesting)
    /\ rx_found = 0
    /\ rx_steps > 10 * Len(rx_content)

(***************************************************************************)
(* _analyze_system_prompt_staticness and its file-level fallback           *)
(*                                                                         *)
(* An indicator is the kind of its message, the variable names the message *)
(* lists and the number of occurrences it reports.                         *)
(***************************************************************************)

Indicator(what, names, n) == [what |-> what, names |-> names, n |-> n]

\* re.findall(r, s) for a pattern with one group: the texts of the group
Group1Of(s, hits) == [k \in 1..Len(hits) |-> Group(s, hits[k], 1)]

FindAllGroup(r, s) == Group1Of(s, RxFindAll(r, s))

IsIdentifier(w) == RxMatch(JobRx("ident"), w).found

\* [v.strip() for v in variables if v.strip().isidentifier()]
StrippedIdentifiers(variables) ==
    SelectSeq([k \in 1..Len(variables) |-> Strip(variables[k])], IsIdentifier)

\* the {...} of a text that hold, once stripped, a Python identifier
RealVariables(prompt_text) ==
    StrippedIdentifiers(FindAllGroup(JobRx("var"), prompt_text))

\* one round of the loop over the matches of the four f-string patterns
FStringRound(acc, real_variables) ==
    [system_prompts_found |-> acc.system_prompts_found + 1,
     dynamic_variables |-> acc.dynamic_variables \o real_variables,
     indicators |->
         IF real_variables = <<>> THEN acc.indicators
         ELSE Append(acc.indicators,
                     Indicator("f-string in system_prompt with variables",
                               real_variables, 0))]

\* the loop over the matches of the four f-string patterns
RECURSIVE FStringLoop(_, _)
FStringLoop(acc, prompt_texts) ==
    IF prompt_texts = <<>> THEN acc
    ELSE FStringLoop(FStringRound(acc, RealVariables(Head(prompt_texts))),
                     Tail(prompt_texts))

\* if var_clean not in dynamic_variables: dynamic_variables.append(var_clean)
RECURSIVE AppendNew(_, _)
AppendNew(list, names) ==
    IF names = <<>> THEN list
    ELSE IF \E k \in 1..Len(list) : list[k] = Head(names)
         THEN AppendNew(list, Tail(names))
         ELSE AppendNew(Append(list, Head(names)), Tail(names))

\* the variables of every f-string of one parenthesised prompt, in order
RECURSIVE FStringVariables(_)
FStringVariables(fstrings) ==
    IF fstrings = <<>> THEN <<>>
    ELSE RealVariables(Head(fstrings)) \o FStringVariables(Tail(fstrings))

\* one round of the loop over the matches of paren_pattern
ParenRound(acc, dynamic_variables) ==
    [system_prompts_found |-> acc.system_prompts_found + 1,
     dynamic_variables |-> dynamic_variables,
     indicators |->
         IF dynamic_variables # <<>> /\ acc.indicators = <<>>
         THEN <<Indicator("f-string in system_prompt with variables",
                          dynamic_variables, 0)>>
         ELSE acc.indicators]

\* the loop over the matches of paren_pattern
RECURSIVE ParenLoop(_, _)
ParenLoop(acc, paren_contents) ==
    IF paren_contents = <<>> THEN acc
    ELSE ParenLoop(
             ParenRound(acc,
                 AppendNew(acc.dynamic_variables,
                     FStringVariables(
                         FindAllGroup(JobRx("fstring"), Head(paren_contents))))),
             Tail(paren_contents))

\* if count > 0: indicators.append({...})
FileIndicator(what, count) ==
    IF count > 0 THEN <<Indicator(what, <<>>, count)>> ELSE <<>>

\* len(re.findall(pattern, content))
Count(kind, text) == Len(RxFindAll(JobRx(kind), text))

FileLevelResult(indicators) ==
    [is_static |-> indicators = <<>>,
     confidence |-> IF Len(indicators) = 0 THEN "high"
                    ELSE IF Len(indicators) <= 2 THEN "medium"
                    ELSE "high",
     indicators |-> IF indicators = <<>>
                    THEN <<Indicator("No dynamic prompt indicators found", <<>>, 0)>>
                    ELSE indicators,
     system_prompts_found |-> 0,
     dynamic_variables |-> <<>>]

_analyze_prompt_staticness_file_level(text) ==
    FileLevelResult(
        FileIndicator("f-string variables", Count("fl_fstring", text))
        \o FileIndicator(".format() calls", Count("fl_format", text))
        \o FileIndicator("string concatenation", Count("fl_concat", text))
        \o FileIndicator("% formatting", Count("fl_percent", text)))

\* if re.search(format_pattern, content): dynamic_indicators.append({...})
FormatIndicators(indicators, uses_format) ==
    IF uses_format
    THEN Append(indicators, Indicator("system_prompt uses .format()", <<>>, 0))
    ELSE indicators

\* mutant: the list of indicators is returned as it was collected
PromptLevelResult_AsCollected(found, indicators) ==
    [is_static |-> indicators = <<>>,
     confidence |-> IF Len(indicators) = 0 THEN "high"
                    ELSE IF Len(found.dynamic_variables) > 0 THEN "high"
                    ELSE "medium",
     indicators |-> indicators,
     system_prompts_found |-> found.system_prompts_found,
     dynamic_variables |-> found.dynamic_variables]

PromptLevelResult(found, indicators) ==
    [is_static |-> indicators = <<>>,
     confidence |-> IF Len(indicators) = 0 THEN "high"
                    ELSE IF Len(found.dynamic_variables) > 0 THEN "high"
                    ELSE "medium",
     indicators |-> IF indicators = <<>>
                    THEN <<Indicator("No dynamic variables in system_prompt",
                                     <<>>, 0)>>
                    ELSE indicators,
     system_prompts_found |-> found.system_prompts_found,
     dynamic_variables |-> found.dynamic_variables]

\* if system_prompts_found == 0: return the file-level analysis
StaticnessResult(text, found) ==
    IF found.system_prompts_found = 0
    THEN _analyze_prompt_staticness_file_level(text)
    ELSE PromptLevelResult(found,
             FormatIndicators(found.indicators,
                              RxSearch(JobRx("format"), text).found))

\* the texts the four f-string patterns capture, pattern by pattern
FStringPromptTexts(text) ==
    FindAllGroup(JobRx("fstr1"), text) \o FindAllGroup(JobRx("fstr2"), text)
    \o FindAllGroup(JobRx("fstr3"), text) \o FindAllGroup(JobRx("fstr4"), text)

_analyze_system_prompt_staticness(text) ==
    StaticnessResult(text,
        ParenLoop(
            FStringLoop([system_prompts_found |-> 0, dynamic_variables |-> <<>>,
                         indicators |-> <<>>],
                        FStringPromptTexts(text)),
            FindAllGroup(JobRx("paren"), text)))

\* ---- the contents analysed ----

\* A content is one system_prompt assignment, or none, followed by lines
\* that use other ways of building strings.  The assigned literal is made of
\* at most MaxSegments segments.
MaxSegments == 3

\* f-string literals by their opening, and the other right-hand sides
FStringStyles == {"f\"\"\"", "f'''", "f\"", "f'"}
Styles == FStringStyles \cup {"\"", "(", "none"}

\* "var" and "spaced" are placeholders holding a bare identifier, "expr" one
\* holding another expression; "{{" and "}}" are literal braces, "escaped" is
\* the delimiting quote character written with a backslash, "other" the other
\* quote character
Segments == {"text", "var", "spaced", "expr", "{{", "}}", "escaped", "other"}
Placeholders == {"var", "spaced", "expr"}

TrailingLines == {<<>>, <<"format">>, <<"fstring", "format", "percent">>}

StaticSrcs ==
    [style : Styles, body : StringsUpTo(Segments, MaxSegments), lines : TrailingLines]

Delimiter(style) == IF style \in FStringStyles THEN Tail(Chars(style)) ELSE Chars(style)

SegmentText(style, segment) ==
    LET q == Head(Delimiter(style))
    IN CASE segment = "text" -> Chars("Hello ")
         [] segment = "var" -> Chars("{user_name}")
         [] segment = "spaced" -> Chars("{ user_name }")
         [] segment = "expr" -> Chars("{user.name}")
         [] segment = "{{" -> Chars("{{")
         [] segment = "}}" -> Chars("}}")
         [] segment = "escaped" -> <<BSLASH, q>>
         [] segment = "other" -> IF q = DQUOTE THEN <<SQUOTE>> ELSE <<DQUOTE>>

RECURSIVE BodyText(_, _)
BodyText(style, body) ==
    IF body = <<>> THEN <<>>
    ELSE SegmentText(style, Head(body)) \o BodyText(style, Tail(body))

LineText(line) ==
    CASE line = "format" -> Chars("msg = \"x {}\".format(a)\n")
      [] line = "fstring" -> Chars("greeting = f\"Hi {name}\"\n")
      [] line = "percent" -> Chars("log = \"%s\" % (b)\n")

RECURSIVE LinesText(_)
LinesText(lines) ==
    IF lines = <<>> THEN <<>> ELSE LineText(Head(lines)) \o LinesText(Tail(lines))

StaticContent(src) ==
    LET assignment ==
            CASE src.style = "none" -> <<>>
              [] src.style = "(" ->
                   Chars("agent = Agent(\n    system_prompt=(\n        \"You are a helper. \"\n        f\"")
                   \o BodyText("f\"", src.body) \o Chars("\"\n    )\n)\n")
              [] OTHER ->
                   Chars("system_prompt = ") \o Chars(src.style)
                   \o BodyText(src.style, src.body) \o Delimiter(src.style) \o <<"\n">>
    IN assignment \o LinesText(src.lines)

StaticInit ==
    /\ ScanIdle /\ ParseIdle /\ MatchIdle /\ PromptsIdle /\ AnalyzeIdle /\ DetectIdle /\ FisIdle /\ ResetIdle /\ CacheFileIdle
    /\ st_src \in StaticSrcs
    /\ st_content = StaticContent(st_src)
    /\ analysis = None
    /\ st_pc = "call"

AnalyzeStaticness ==
    /\ st_pc = "call"
    /\ analysis' = _analyze_system_prompt_staticness(st_content)
    /\ st_pc' = "done"
    /\ UNCHANGED <<st_src, st_content>>
    /\ UNCHANGED notStaticVars

StaticNext == AnalyzeStaticness

SpecStatic == StaticInit /\ [][StaticNext]_vars

\* the only system_prompt assignment of the content is an f-string whose only
\* placeholder holds the bare identifier user_name
OneBarePlaceholder(src) ==
    /\ src.style \in FStringStyles
    /\ Cardinality({k \in 1..Len(src.body) : src.body[k] \in Placeholders}) = 1
    /\ \E k \in 1..Len(src.body) : src.body[k] \in {"var", "spaced"}

\* C10: when the only system_prompt assignment of the content is an f-string
\* whose only placeholder is a bare identifier, the analysis returned is
\* is_static = False, dynamic_variables = [that identifier], confidence =
\* "high"; and whenever a system_prompt assignment was found, the confidence
\* is "high" exactly when no dynamic indicator was found or at least one
\* variable name was found ("medium" otherwise).
C10_FStringPlaceholder ==
    st_pc = "done" =>
        /\ OneBarePlaceholder(st_src) =>
               /\ analysis.is_static = FALSE
               /\ analysis.dynamic_variables = <<Chars("user_name")>>
               /\ analysis.confidence = "high"
        /\ analysis.system_prompts_found > 0 =>
               /\ analysis.confidence \in {"high", "medium"}
               /\ analysis.confidence = "high" <=>
                      (analysis.is_static \/ analysis.dynamic_variables # <<>>)

\* the one entry a result carries when no indicator was collected
NoIndicators(result) ==
    IF result.system_prompts_found = 0
    THEN <<Indicator("No dynamic prompt indicators found", <<>>, 0)>>
    ELSE <<Indicator("No dynamic variables in system_prompt", <<>>, 0)>>

\* C25, as amended: the indicators list of a returned result is never empty;
\* is_static holds exactly when no indicator was collected, and the list
\* returned is then the single entry saying so ("No dynamic variables in
\* system_prompt" in the system-prompt branch, "No dynamic prompt indicators
\* found" in the file-level fallback); otherwise it is the list collected
C25_StaticIffNoneCollected ==
    st_pc = "done"
    => /\ analysis.indicators # <<>>
       /\ analysis.is_static <=> analysis.indicators = NoIndicators(analysis)

\* a static result of the system-prompt branch has been returned
C25_Witness ==
    /\ st_pc = "done"
    /\ analysis.system_prompts_found = 1
    /\ analysis.is_static
    /\ Len(analysis.indicators) = 1

\* C25, as stated: is_static == (len(indicators) == 0) on the list returned
C25_StaticIffEmptyList ==
    st_pc = "done" => (analysis.is_static <=> Len(analysis.indicators) = 0)

(***************************************************************************)
(* _find_prompts: the AI prompt finder first, the regex path when it has   *)
(* nothing to give                                                         *)
(*                                                                         *)
(* The helper analyze_code_for_prompts of utils/bedrock_helper is a call   *)
(* to a Bedrock model.  What one call does is an input of the model: the   *)
(* import fails, the call raises, or it returns a list whose items are     *)
(* dictionaries (keys may be missing) or something else.                   *)
(***************************************************************************)

\* content[:offset].count('\n') + 1
LineOf(text, offset) == 1 + Cardinality({k \in 1..offset : text[k] = "\n"})

PromptName ==
    Alt(<<Lit("system_prompt"), Lit("prompt"), Lit("instruction"), Lit("message")>>)
PropertyName ==
    Alt(<<Lit("instruction"), Lit("prompt"), Lit("message"), Lit("system")>>)
Word == Cls(WordChars)

MinPromptLength == 200

\* python_patterns + typescript_patterns, lowercased (re.IGNORECASE)
all_patterns ==
    <<Cat(<<Grp(1, PromptName), Star(Space), Lit("="), Star(Space), Opt(Lit("f")),
            Lit("\"\"\""), Grp(2, LazyStar(AnyChar)), Lit("\"\"\"")>>),
      Cat(<<Alt(<<Lit("const"), Lit("let"), Lit("var")>>), Plus(Space),
            Grp(1, Cat(<<Star(Word),
                         Alt(<<Lit("prompt"), Lit("instruction"), Lit("message"),
                               Lit("system")>>),
                         Star(Word)>>)),
            Star(Space), Cls({"=", ":"}), Star(Space),
            Cls({BACKTICK}), Grp(2, AtLeast(NotCls({BACKTICK}), MinPromptLength)), Cls({BACKTICK})>>),
      Cat(<<Grp(1, PropertyName), Star(Space), Lit(":"), Star(Space),
            Cls({BACKTICK}), Grp(2, AtLeast(NotCls({BACKTICK}), MinPromptLength)), Cls({BACKTICK})>>)>>

instruction_keywords == <<"you are", "act as", "analyze", "evaluate">>

has_instruction(text) ==
    \E k \in 1..Len(instruction_keywords) :
        RxSearch(Cat(<<WordBoundary, Lit(instruction_keywords[k]), WordBoundary>>),
                 Lower(text)).found

\* the prompts one pattern finds, in the order of its matches
PatternPrompts(pattern, text) ==
    LET hits == RxFindAll(pattern, Lower(text))
        prompt(m) == [text |-> Group(text, m, 2),
                      length |-> Len(Group(text, m, 2)),
                      line |-> LineOf(text, m.b),
                      start |-> m.b,
                      end |-> m.e]
        kept(p) == IF has_instruction(p.text) THEN p.length >= MinPromptLength ELSE FALSE
    IN SelectSeq([k \in 1..Len(hits) |-> prompt(hits[k])], kept)

\* the regex fallback
RegexPrompts(text) ==
    PatternPrompts(all_patterns[1], text) \o PatternPrompts(all_patterns[2], text)
    \o PatternPrompts(all_patterns[3], text)

\* p.get(key, default)
Get(p, key, default) == IF key \in DOMAIN p THEN p[key] ELSE default

\* ---- what the helper does in one call ----

GoodItem == [prompt_preview |-> Chars("You are a code reviewer."),
             estimated_tokens |-> 180, line |-> 4]
DeepItem == [prompt_preview |-> Chars("Give a comprehensive review."),
             estimated_tokens |-> 40, line |-> 12]
SparseItem == [line |-> 9]
NotADict == [not_a_dict |-> TRUE]

HelperAnswers ==
    {[kind |-> k, items |-> <<>>] : k \in {"import fails", "call raises"}}
    \cup {[kind |-> "returns", items |-> q] :
             q \in {<<>>, <<GoodItem>>, <<GoodItem, DeepItem>>,
                    <<GoodItem, SparseItem>>, <<GoodItem, NotADict>>, <<NotADict>>}}

\* ---- the contents searched ----

\* at most MaxLiterals prompt literals, each in one of three notations and
\* either a prompt the regex path keeps ("kept"), one character too short
\* ("short") or without an instruction keyword ("plain")
MaxLiterals == 2

Notations == {"python", "const", "property"}
Literals == [notation : Notations, kind : {"kept", "short", "plain"}]
PromptSrcs == StringsUpTo(Literals, MaxLiterals)

\* the first n characters of the opening followed by the filler, repeated
Padded(opening, filler, n) ==
    [k \in 1..n |->
        IF k <= Len(opening) THEN opening[k]
        ELSE filler[((k - Len(opening) - 1) % Len(filler)) + 1]]

LiteralBody(lit) ==
    LET filler == Chars("Check every changed line.\nKeep the answer short. ")
    IN CASE lit.kind = "kept" ->
              Padded(Chars("You are a code reviewer. "), filler, MinPromptLength)
         [] lit.kind = "short" ->
              Padded(Chars("You are a code reviewer. "), filler, MinPromptLength - 1)
         [] lit.kind = "plain" ->
              Padded(Chars("Notes for the code reviewer. "), filler, MinPromptLength)

Opening(lit) ==
    CASE lit.notation = "python" -> Chars("system_prompt = \"\"\"")
      [] lit.notation = "const" -> Chars("const reviewPrompt = ") \o <<BACKTICK>>
      [] lit.notation = "property" -> Chars("instruction: ") \o <<BACKTICK>>

Closing(lit) ==
    IF lit.notation = "python" THEN Chars("\"\"\"") ELSE <<BACKTICK>>

Statement(lit) == Opening(lit) \o LiteralBody(lit) \o Closing(lit) \o Chars("\n\n")

RECURSIVE PromptContent(_)
PromptContent(src) ==
    IF src = <<>> THEN <<>> ELSE Statement(Head(src)) \o PromptContent(Tail(src))

PromptsInit ==
    /\ ScanIdle /\ ParseIdle /\ MatchIdle /\ StaticIdle /\ AnalyzeIdle /\ DetectIdle /\ FisIdle /\ ResetIdle /\ CacheFileIdle
    /\ fp_src \in PromptSrcs
    /\ fp_content = PromptContent(fp_src)
    /\ helper \in HelperAnswers
    /\ ai_prompts = <<>>
    /\ prompts = <<>>
    /\ fp_pc = "import"

\* from ..utils.bedrock_helper import analyze_code_for_prompts
FindPromptsImport ==
    /\ fp_pc = "import"
    /\ fp_pc' = IF helper.kind = "import fails" THEN "except" ELSE "call"
    /\ UNCHANGED <<fp_src, fp_content, helper, ai_prompts, prompts>>
    /\ UNCHANGED notPromptVars

\* ai_prompts = analyze_code_for_prompts(content, file_path); if ai_prompts: prompts = []
FindPromptsCall ==
    /\ fp_pc = "call"
    /\ IF helper.kind = "call raises"
       THEN fp_pc' = "except" /\ UNCHANGED <<ai_prompts, prompts>>
       ELSE /\ ai_prompts' = helper.items
            /\ prompts' = <<>>
            /\ fp_pc' = IF helper.items = <<>> THEN "regex" ELSE "convert"
    /\ UNCHANGED <<fp_src, fp_content, helper>>
    /\ UNCHANGED notPromptVars

\* for p in ai_prompts: prompts.append({...}); return prompts
FindPromptsConvert ==
    /\ fp_pc = "convert"
    /\ IF ai_prompts = <<>>
       THEN fp_pc' = "returned" /\ UNCHANGED <<ai_prompts, prompts>>
       ELSE LET p == Head(ai_prompts)
            IN IF "not_a_dict" \in DOMAIN p
               THEN fp_pc' = "except" /\ UNCHANGED <<ai_prompts, prompts>>
               ELSE /\ prompts' =
                         Append(prompts,
                                [text |-> Get(p, "prompt_preview", <<>>),
                                 length |-> Get(p, "estimated_tokens", 0) * 4,
                                 line |-> Get(p, "line", 0),
                                 start |-> 0,
                                 end |-> 0])
                    /\ ai_prompts' = Tail(ai_prompts)
                    /\ UNCHANGED fp_pc
    /\ UNCHANGED <<fp_src, fp_content, helper>>
    /\ UNCHANGED notPromptVars

\* the handler lets the exception through
FindPromptsExcept_Reraise ==
    /\ fp_pc = "except"
    /\ fp_pc' = "raised"
    /\ UNCHANGED <<fp_src, fp_content, helper, ai_prompts, prompts>>
    /\ UNCHANGED notPromptVars

\* except Exception as e: print(...)
FindPromptsExcept ==
    /\ fp_pc = "except"
    /\ fp_pc' = "regex"
    /\ UNCHANGED <<fp_src, fp_content, helper, ai_prompts, prompts>>
    /\ UNCHANGED notPromptVars

\* prompts = []; the loop over all_patterns; return prompts
FindPromptsRegex ==
    /\ fp_pc = "regex"
    /\ prompts' = RegexPrompts(fp_content)
    /\ fp_pc' = "returned"
    /\ UNCHANGED <<fp_src, fp_content, helper, ai_prompts>>
    /\ UNCHANGED notPromptVars

PromptsNext ==
    \/ FindPromptsImport
    \/ FindPromptsCall
    \/ FindPromptsConvert
    \/ FindPromptsExcept
    \/ FindPromptsRegex

SpecPrompts == PromptsInit /\ [][PromptsNext]_vars

\* ---- what the regex path has to find, from how the content was composed ----

\* the literals before the k-th, as text
Before(src, k) == PromptContent(SubSeq(src, 1, k - 1))

\* the k-th literal as the prompt it is
AsPrompt(src, k) ==
    LET lit == src[k]
        at == Len(Before(src, k))
    IN [text |-> LiteralBody(lit),
        length |-> Len(LiteralBody(lit)),
        line |-> LineOf(fp_content, at),
        start |-> at,
        end |-> at + Len(Opening(lit)) + Len(LiteralBody(lit)) + Len(Closing(lit))]

\* the kept literals of one notation, in the order of the text
KeptOf(src, notation) ==
    LET ks == SelectSeq([k \in 1..Len(src) |-> k],
                        LAMBDA k : src[k].notation = notation /\ src[k].kind = "kept")
    IN [j \in 1..Len(ks) |-> AsPrompt(src, ks[j])]

ContentPrompts(src) ==
    KeptOf(src, "python") \o KeptOf(src, "const") \o KeptOf(src, "property")

\* the helper gave nothing: its import or its call failed, an item of its
\* answer could not be read, or it returned no prompts
HelperFailed ==
    \/ helper.kind \in {"import fails", "call raises"}
    \/ \E k \in 1..Len(helper.items) : "not_a_dict" \in DOMAIN helper.items[k]

\* C9: _find_prompts never lets an exception of the AI helper reach its
\* caller, and when the import of the helper or its call failed, the list
\* returned is the list of the prompts that the content holds for the regex
\* path (the literals with an instruction keyword and at least 200
\* characters, pattern by pattern), the same list as when the helper
\* returns no prompts.
C9_HelperFailureFallsBack ==
    /\ fp_pc # "raised"
    /\ (fp_pc = "returned" /\ (HelperFailed \/ helper.items = <<>>)) =>
           prompts = ContentPrompts(fp_src)

\* the helper's answer broke off after a first good item, and the list
\* returned holds the two prompts of the content and nothing of that item
C9_Witness ==
    /\ fp_pc = "returned"
    /\ helper = [kind |-> "returns", items |-> <<GoodItem, NotADict>>]
    /\ Len(fp_src) = 2
    /\ Len(prompts) = 2
    /\ prompts[1].line = 1
    /\ prompts[2].line > 1

(***************************************************************************)
(* BedrockDetector.analyze                                                 *)
(*                                                                         *)
(* analyze(content, file_path) starts from an empty local list, runs its   *)
(* detection steps one after the other, each appending to the list, adds   *)
(* the file links and returns the list.  A finding is a record of the      *)
(* fields that depend on the file; the fixed advisory texts ("service",    *)
(* "description", "recommendation", ...) are left out.  A line number of   *)
(* None is written 0, max_tokens is the decimal text of the integer.       *)
(***************************************************************************)

MaxCalls == 3

\* sys.get_int_max_str_digits() where the interpreter limits int(str); the
\* setting is 0 where it does not.  It is fixed for the process; the model
\* reads it when int() first meets a text the limit would refuse.
IntMaxStrDigits == 4300
Unread == -1

\* . without re.DOTALL
Dot == NotCls({"\n"})
LowerAlnum == Cls(LowerChars \cup DigitChars)
HostChars == Cls(LowerChars \cup DigitChars \cup {"-"})

\* match.group(0)
Matched(s, m) == SubSeq(s, m.b + 1, m.e)

\* the lists of a list of lists, one after the other
RECURSIVE FlattenFrom(_, _)
FlattenFrom(lists, k) ==
    IF k > Len(lists) THEN <<>> ELSE lists[k] \o FlattenFrom(lists, k + 1)

Flatten(lists) == FlattenFrom(lists, 1)

\* any(re.search(pattern, text) for pattern in patterns)
AnySearch(patterns, text) ==
    \E k \in 1..Len(patterns) : RxSearch(patterns[k], text).found

\* ---- client detection ----

\* r'bedrock-runtime\.[a-z0-9-]+\.amazonaws\.com/openai'
BedrockEndpoint ==
    Cat(<<Lit("bedrock-runtime."), Plus(HostChars), Lit(".amazonaws.com/openai")>>)

\* the patterns of _has_bedrock_client, lowercased (re.IGNORECASE)
client_patterns ==
    <<Cat(<<Lit("boto3.client("), Quote, Lit("bedrock-runtime"), Quote>>),
      Cat(<<Lit("from"), Plus(Space), Star(Dot), Lit("bedrock"), Star(Dot),
            Plus(Space), Lit("import")>>),
      Lit("bedrockruntime"),
      Lit("@aws-sdk/client-bedrock"),
      Cat(<<Lit("from"), Plus(Space), Lit("strands.models"), Plus(Space),
            Lit("import"), Plus(Space), Lit("bedrockmodel")>>),
      Cat(<<Lit("bedrockmodel"), Star(Space), Lit("(")>>),
      BedrockEndpoint>>

_has_bedrock_client(text) == AnySearch(client_patterns, Lower(text))

ClientFindings(file_path, detected) ==
    IF detected THEN <<[type |-> "bedrock_client_detected", file |-> file_path]>>
    ELSE <<>>

\* ---- model tier and streaming assessment ----

\* float(version) >= 4.0 for a version text \d+(?:\.\d+)?, 3.0 without one
WholePart(version) ==
    SubSeq(version, 1, Least({k \in 1..(Len(version) + 1) :
                                 IF k > Len(version) THEN TRUE ELSE version[k] = "."}) - 1)

\* str(int(digits)): the digits without their leading zeros
Canonical(digits) ==
    SubSeq(digits,
           CHOOSE k \in 1..Len(digits) :
               /\ IF k = Len(digits) THEN TRUE ELSE digits[k] # "0"
               /\ \A j \in 1..(k - 1) : digits[j] = "0",
           Len(digits))

AtLeastFourOf(whole) == IF Len(whole) > 1 THEN TRUE ELSE whole[1] \in CharSet("456789")

AtLeastFour(version) ==
    IF version = NoText THEN FALSE ELSE AtLeastFourOf(Canonical(WholePart(version)))

ClaudeModelTier(model_lower, four) ==
    IF Contains(model_lower, "opus") \/ Contains(model_lower, "4-")
       \/ Contains(model_lower, "4.") \/ four
    THEN "ultra-premium"
    ELSE IF Contains(model_lower, "sonnet") THEN "premium"
    ELSE IF Contains(model_lower, "haiku") THEN "cost-effective"
    ELSE "unknown"

NovaModelTier(model_lower) ==
    IF Contains(model_lower, "premier") THEN "ultra-premium"
    ELSE IF Contains(model_lower, "pro") THEN "premium"
    ELSE IF Contains(model_lower, "lite") THEN "cost-effective"
    ELSE IF Contains(model_lower, "micro") THEN "ultra-cost-effective"
    ELSE "unknown"

ModelTierOf(model_lower) ==
    IF Contains(model_lower, "claude")
    THEN [tier |-> ClaudeModelTier(model_lower,
                       AtLeastFour(Group1(model_lower,
                                          RxSearch(JobRx("claude_version"), model_lower)))),
          model_family |-> "anthropic-claude"]
    ELSE IF Contains(model_lower, "nova")
    THEN [tier |-> NovaModelTier(model_lower), model_family |-> "amazon-nova"]
    ELSE IF Contains(model_lower, "llama")
    THEN [tier |-> IF Contains(model_lower, "70b") \/ Contains(model_lower, "405b")
                   THEN "premium" ELSE "cost-effective",
          model_family |-> "meta-llama"]
    ELSE [tier |-> "unknown", model_family |-> "unknown"]

_analyze_model_tier(id) == ModelTierOf(Lower(id))

IsPremium(id) == _analyze_model_tier(id).tier \in {"premium", "ultra-premium"}

IsLambda(path_lower, text) ==
    Contains(path_lower, "lambda") \/ Contains(path_lower, "handler")
    \/ Contains(text, "lambda_handler")

\* mutant: the context is not looked at
_assess_streaming_AnyContext(streaming, file_path, text) ==
    IF streaming
    THEN [status |-> "Streaming enabled",
          note |-> "Appropriate for real-time UI/API responses",
          consideration |->
              "Streaming is good for user experience but extends compute time"]
    ELSE [status |-> "Synchronous mode",
          note |-> "Faster response, lower compute costs",
          appropriate_for |-> "Batch processing, Lambda functions, background jobs"]

\* the assessment returned; the texts are the source's, the status without
\* its leading symbol
_assess_streaming(streaming, file_path, text) ==
    IF streaming
    THEN IF IsLambda(Lower(Chars(file_path)), text)
         THEN [status |-> "Streaming enabled in Lambda context",
               issue |-> "Streaming extends Lambda execution time, increasing costs",
               recommendation |-> "Disable streaming for batch/Lambda processing",
               optimization |-> "Set streaming=False for faster synchronous responses",
               potential_savings |-> "10-20% reduction in Lambda execution costs"]
         ELSE [status |-> "Streaming enabled",
               note |-> "Appropriate for real-time UI/API responses",
               consideration |->
                   "Streaming is good for user experience but extends compute time"]
    ELSE [status |-> "Synchronous mode",
          note |-> "Faster response, lower compute costs",
          appropriate_for |-> "Batch processing, Lambda functions, background jobs"]

\* ---- Strands BedrockModel configuration ----

StrandsFinding(text, file_path, line_num, id, model_tier, streaming) ==
    IF streaming = NoText
    THEN [type |-> "strands_bedrock_model_config", file |-> file_path,
          line |-> line_num, model_id |-> id, model_tier |-> model_tier.tier,
          model_family |-> Chars(model_tier.model_family)]
    ELSE [type |-> "strands_bedrock_model_config", file |-> file_path,
          line |-> line_num, model_id |-> id, model_tier |-> model_tier.tier,
          model_family |-> Chars(model_tier.model_family),
          streaming |-> (streaming = Chars("true")),
          streaming_assessment |->
              _assess_streaming(streaming = Chars("true"), file_path, text)]

\* if model_id: ... findings.append(finding)
StrandsConfig(text, file_path, line_num, id, streaming) ==
    IF id = NoText THEN <<>>
    ELSE <<StrandsFinding(text, file_path, line_num, id, _analyze_model_tier(id),
                          streaming)>>

\* one round of the loop over the BedrockModel(...) matches
StrandsRound(text, file_path, line_num, params_str) ==
    StrandsConfig(text, file_path, line_num,
                  Group1(params_str, RxSearch(JobRx("model_id"), params_str)),
                  Group1(Lower(params_str),
                         RxSearch(JobRx("streaming"), Lower(params_str))))

StrandsRounds(text, file_path, hits) ==
    Flatten([k \in 1..Len(hits) |->
                StrandsRound(text, file_path, LineOf(text, hits[k].b),
                             Group(text, hits[k], 1))])

_detect_strands_bedrock_model(text, file_path) ==
    StrandsRounds(text, file_path, RxFindAll(JobRx("strands"), text))

\* ---- model identifiers ----

\* lowercased (re.IGNORECASE)
BEDROCK_MODEL_ID_PATTERN ==
    Cat(<<WordBoundary,
          Grp(1, Cat(<<Opt(Alt(<<Lit("global."), Lit("us."), Lit("eu."), Lit("apac.")>>)),
                       Alt(<<Lit("anthropic"), Lit("amazon"), Lit("meta"), Lit("cohere"),
                             Lit("mistral"), Lit("ai21"), Lit("stability"),
                             Lit("deepseek"), Lit("openai"), Lit("qwen"),
                             Lit("twelvelabs")>>),
                       Lit("."), Plus(LowerAlnum),
                       Plus(Cat(<<Lit("-"), Plus(LowerAlnum)>>)),
                       Opt(Cat(<<Lit("-v"), Plus(Digit), Lit(":"), Plus(Digit)>>)),
                       Opt(Cat(<<Lit(":"), Plus(Digit), Lit("k")>>)),
                       Opt(Lit(":mm"))>>)),
          WordBoundary>>)

ModelMatches(text) == RxFindAll(BEDROCK_MODEL_ID_PATTERN, Lower(text))

\* the text of the line up to the match
LineBefore(text, start) ==
    SubSeq(text,
           1 + Greatest({0} \cup {k \in 1..start : text[k] = "\n"}),
           start)

\* how many times w occurs in s before index i
Occurrences(s, w, i) == Cardinality({k \in 0..(i - Len(w)) : HasAt(s, k, w)})

\* the match stands in a comment, in a raised or logged message, or in a
\* docstring
_is_likely_false_positive(text, start, end) ==
    \/ Contains(LineBefore(text, start), "#")
    \/ Contains(LineBefore(text, start), "//")
    \/ Contains(Lower(LineBefore(text, start)), "raise ")
    \/ Contains(Lower(LineBefore(text, start)), "error")
    \/ Occurrences(text, Chars("\"\"\""), start) % 2 = 1

CrossRegionType(region_prefix) ==
    IF region_prefix = Chars("global") THEN "global"
    ELSE IF region_prefix \in {Chars("us"), Chars("eu"), Chars("apac")}
    THEN "geography-specific"
    ELSE None

ModelFinding(file_path, line_num, id, parsed_id) ==
    [type |-> "bedrock_model_usage", file |-> file_path, line |-> line_num,
     model_id |-> id, parsed |-> parsed_id,
     is_cross_region |-> parsed_id.region_prefix # NoText,
     cross_region_type |-> CrossRegionType(parsed_id.region_prefix)]

ModelRound(text, file_path, m, id) ==
    IF _is_likely_false_positive(text, m.b, m.e) THEN <<>>
    ELSE <<ModelFinding(file_path, LineOf(text, m.b), id, _parse_model_id(id))>>

ModelRounds(text, file_path, hits) ==
    Flatten([k \in 1..Len(hits) |->
                ModelRound(text, file_path, hits[k], Group(text, hits[k], 1))])

_detect_models(text, file_path) == ModelRounds(text, file_path, ModelMatches(text))

\* ---- API calls ----

INVOKE_PATTERNS ==
    <<"invoke_model", "invoke_model_with_response_stream", "converse",
      "converse_stream", "chat_completions_create", "ChatBedrockConverse",
      "ChatBedrock", "BedrockLLM", "Bedrock">>

\* the pattern of a call type: the name, \s*, an opening parenthesis
InvokeRx(call_type) ==
    Cat(<<Lit(IF call_type = "chat_completions_create"
              THEN "chat.completions.create" ELSE call_type),
          Star(Space), Lit("(")>>)

\* lowercased (re.IGNORECASE)
bedrock_endpoint_patterns ==
    <<Cat(<<Lit("base_url"), Star(Space), Lit("="), Star(Space), Quote, Star(Dot),
            Lit("bedrock-runtime"), Star(Dot), Quote>>),
      BedrockEndpoint,
      Cat(<<Lit("bedrock"), Star(Dot), Lit("endpoint")>>)>>

_is_bedrock_openai_client(text) == AnySearch(bedrock_endpoint_patterns, Lower(text))

\* r'stream\s*=\s*True' with re.IGNORECASE
StreamTrue == Cat(<<Lit("stream"), Star(Space), Lit("="), Star(Space), Lit("true")>>)

\* content[start:min(start + width, len(content))]
Window(text, start, width) ==
    SubSeq(text, start + 1, IF start + width < Len(text) THEN start + width ELSE Len(text))

ApiCallFinding(text, file_path, call_type, m, confirmed) ==
    IF call_type = "chat_completions_create"
    THEN [type |-> "bedrock_api_call", file |-> file_path, line |-> LineOf(text, m.b),
          call_type |-> call_type,
          pattern |-> IF RxSearch(StreamTrue, Lower(Window(text, m.b, 500))).found
                      THEN "streaming"
                      ELSE IF Contains(Lower(Chars(call_type)), "stream")
                      THEN "streaming" ELSE "synchronous",
          api_style |-> "openai_compatible",
          bedrock_confirmed |-> confirmed]
    ELSE [type |-> "bedrock_api_call", file |-> file_path, line |-> LineOf(text, m.b),
          call_type |-> call_type,
          pattern |-> IF Contains(Lower(Chars(call_type)), "stream")
                      THEN "streaming" ELSE "synchronous"]

ApiCallsOf(text, file_path, call_type, hits, confirmed) ==
    [k \in 1..Len(hits) |-> ApiCallFinding(text, file_path, call_type, hits[k], confirmed)]

_detect_api_calls(text, file_path) ==
    Flatten([p \in 1..Len(INVOKE_PATTERNS) |->
                ApiCallsOf(text, file_path, INVOKE_PATTERNS[p],
                           RxFindAll(InvokeRx(INVOKE_PATTERNS[p]), text),
                           _is_bedrock_openai_client(text))])

\* ---- token limits ----

\* r"max_tokens['\"]?\s*[:=]\s*(\d+)", lowercased (re.IGNORECASE)
max_tokens_pattern ==
    Cat(<<Lit("max_tokens"), Opt(Quote), Star(Space), Cls({":", "="}), Star(Space),
          Grp(1, Plus(Digit))>>)

\* int(canonical) > 4000
Over4000(canonical) ==
    IF Len(canonical) # 4 THEN Len(canonical) > 4
    ELSE IF canonical[1] = "4" THEN SubSeq(canonical, 2, 4) # Chars("000")
    ELSE canonical[1] \in CharSet("56789")

\* the line and the digits of each max_tokens setting
TokenSettings(text, hits) ==
    [k \in 1..Len(hits) |->
        [line |-> LineOf(text, hits[k].b), digits |-> Group(text, hits[k], 1)]]

TokenMatches(text) == TokenSettings(text, RxFindAll(max_tokens_pattern, Lower(text)))

\* int(match.group(1)) raises ValueError for more digits than the limit
\* allows; a limit of 0 is no limit, and no text is refused before the limit
\* is read
IntRaises(digits, limit) == IF limit <= 0 THEN FALSE ELSE Len(digits) > limit

TokensRaise(settings, limit) ==
    \E k \in 1..Len(settings) : IntRaises(settings[k].digits, limit)

\* where the run of equal digits that begins at index i ends
RunEnd(digits, i) ==
    Least({j \in (i + 1)..Len(digits) :
              IF j = Len(digits) THEN TRUE ELSE At(digits, j) # At(digits, i)})

\* a decimal text as its runs of equal digits, the way a finding holds a
\* token count
RECURSIVE RunsFrom(_, _)
RunsFrom(digits, i) ==
    IF i >= Len(digits) THEN <<>>
    ELSE <<[digit |-> At(digits, i), times |-> RunEnd(digits, i) - i]>>
         \o RunsFrom(digits, RunEnd(digits, i))

TokenFinding(file_path, line_num, token_count) ==
    [type |-> "token_configuration", file |-> file_path, line |-> line_num,
     max_tokens |-> RunsFrom(token_count, 0),
     note |-> IF Over4000(token_count) THEN "High token limit"
              ELSE "Token limit configured"]

TokenFindings(file_path, settings) ==
    [k \in 1..Len(settings) |->
        TokenFinding(file_path, settings[k].line, Canonical(settings[k].digits))]

_detect_token_patterns(text, file_path) == TokenFindings(file_path, TokenMatches(text))

\* ---- the prompts of a file ----

\* every item of the answer is a dictionary
Readable(items) == \A k \in 1..Len(items) : "not_a_dict" \notin DOMAIN items[k]

AiPrompts(items) ==
    [k \in 1..Len(items) |->
        [text |-> Get(items[k], "prompt_preview", <<>>),
         length |-> Get(items[k], "estimated_tokens", 0) * 4,
         line |-> Get(items[k], "line", 0),
         start |-> 0,
         end |-> 0]]

\* _find_prompts: the converted answer of the helper, the regex fallback when
\* the helper fails, answers nothing or answers what cannot be converted
FoundPrompts(answer, regex_prompts) ==
    IF answer.kind # "returns" THEN regex_prompts
    ELSE IF answer.items = <<>> THEN regex_prompts
    ELSE IF Readable(answer.items) THEN AiPrompts(answer.items)
    ELSE regex_prompts

_find_prompts(text, answer) == FoundPrompts(answer, RegexPrompts(text))

\* ---- Nova explicit caching ----

\* r'(us\.)?amazon\.nova-(micro|lite|pro|premier)', lowercased (re.IGNORECASE)
nova_pattern ==
    Cat(<<Opt(Lit("us.")), Lit("amazon.nova-"),
          Alt(<<Lit("micro"), Lit("lite"), Lit("pro"), Lit("premier")>>)>>)

NovaModel(text, m) ==
    [found |-> m.found,
     line |-> IF m.found THEN LineOf(text, m.b) ELSE 0,
     model_id |-> IF m.found THEN Matched(text, m) ELSE NoText,
     cached |-> Contains(text, "cachePoint") \/ Contains(text, "cache_control")]

\* nova_matches[0] and the caching markers
NovaUse(text) == NovaModel(text, RxSearch(nova_pattern, Lower(text)))

\* the step reaches  large_prompts = self._find_prompts(content, file_path)
NovaAsksPrompts(nova) == IF nova.found THEN ~nova.cached ELSE FALSE

LargeEnough(prompt_info) == prompt_info.length \div 4 >= 150

NovaOpportunity(file_path, id, prompt_info) ==
    [type |-> "nova_explicit_caching_opportunity", file |-> file_path,
     line |-> prompt_info.line, model_id |-> id,
     estimated_static_tokens |-> prompt_info.length \div 4]

NovaOpportunities(file_path, id, large_prompts) ==
    [k \in 1..Len(large_prompts) |-> NovaOpportunity(file_path, id, large_prompts[k])]

\* mutant: the caching markers are not looked for
NovaCaching_MarkersIgnored(file_path, nova, prompts_found) ==
    IF ~nova.found THEN <<>>
    ELSE NovaOpportunities(file_path, nova.model_id,
                           SelectSeq(prompts_found, LargeEnough))

\* _detect_nova_explicit_caching_opportunity with the prompts it is given
NovaCaching(file_path, nova, prompts_found) ==
    IF ~nova.found THEN <<>>
    ELSE IF nova.cached
    THEN <<[type |-> "nova_explicit_caching_enabled", file |-> file_path,
            line |-> nova.line, model_id |-> nova.model_id]>>
    ELSE NovaOpportunities(file_path, nova.model_id,
                           SelectSeq(prompts_found, LargeEnough))

\* ---- caching with a cross-region inference profile ----

\* r'cachePoint' or r'cache(?:_control|Control)'
CachingEnabled(text) ==
    Contains(text, "cachePoint") \/ Contains(text, "cache_control")
    \/ Contains(text, "cacheControl")

CrossRegionFinding(model_finding, severity, profile_type, prompt_analysis) ==
    [type |-> "caching_cross_region_antipattern", severity |-> severity,
     file |-> model_finding.file, line |-> model_finding.line,
     model_id |-> model_finding.model_id, profile_type |-> profile_type,
     region_prefix |-> model_finding.parsed.region_prefix,
     parsed |-> model_finding.parsed, prompt_analysis |-> prompt_analysis]

\* mutant: a dynamic prompt is high risk with every profile
CrossRegionRound_AlwaysHigh(model_finding, region_prefix, prompt_analysis) ==
    IF region_prefix = NoText THEN <<>>
    ELSE <<CrossRegionFinding(model_finding,
                              IF prompt_analysis.is_static THEN "info" ELSE "high",
                              IF region_prefix = Chars("global") THEN "global"
                              ELSE "geography-specific",
                              prompt_analysis)>>

CrossRegionRound(model_finding, region_prefix, prompt_analysis) ==
    IF region_prefix = NoText THEN <<>>
    ELSE IF region_prefix = Chars("global")
    THEN <<CrossRegionFinding(model_finding,
                              IF prompt_analysis.is_static THEN "info" ELSE "high",
                              "global", prompt_analysis)>>
    ELSE IF region_prefix \in {Chars("us"), Chars("eu"), Chars("apac")}
    THEN <<CrossRegionFinding(model_finding,
                              IF prompt_analysis.is_static THEN "info" ELSE "medium",
                              "geography-specific", prompt_analysis)>>
    ELSE <<>>

CrossRegionRounds(model_findings, prompt_analysis) ==
    Flatten([k \in 1..Len(model_findings) |->
                CrossRegionRound(model_findings[k],
                                 model_findings[k].parsed.region_prefix,
                                 prompt_analysis)])

_detect_caching_cross_region_antipattern(text, file_path) ==
    IF CachingEnabled(text)
    THEN CrossRegionRounds(_detect_models(text, file_path),
                           _analyze_system_prompt_staticness(text))
    ELSE <<>>

\* ---- dynamic variables in system prompts ----

\* the first line holding both 'system_prompt' and '=', None when there is none
SystemPromptLine(text) ==
    LET named == {LineOf(text, p) : p \in {p \in 0..Len(text) :
                                               HasAt(text, p, Chars("system_prompt"))}}
        assigned == {LineOf(text, p - 1) : p \in {p \in 1..Len(text) : text[p] = "="}}
    IN IF named \cap assigned = {} THEN 0 ELSE Least(named \cap assigned)

DynamicPromptFindings(text, file_path, prompt_analysis) ==
    IF prompt_analysis.system_prompts_found = 0 THEN <<>>
    ELSE IF prompt_analysis.is_static THEN <<>>
    ELSE IF prompt_analysis.dynamic_variables = <<>> THEN <<>>
    ELSE <<[type |-> "dynamic_system_prompt", severity |-> "high",
            file |-> file_path, line |-> SystemPromptLine(text),
            dynamic_variables |-> prompt_analysis.dynamic_variables,
            system_prompts_found |-> prompt_analysis.system_prompts_found]>>

\* mutant: one finding for each variable
PerVariable(found) ==
    IF found = <<>> THEN <<>>
    ELSE [k \in 1..Len(found[1].dynamic_variables) |->
             [found[1] EXCEPT !.dynamic_variables = <<found[1].dynamic_variables[k]>>]]

_detect_dynamic_system_prompts_PerVariable(text, file_path) ==
    PerVariable(DynamicPromptFindings(text, file_path,
                                      _analyze_system_prompt_staticness(text)))

_detect_dynamic_system_prompts(text, file_path) ==
    DynamicPromptFindings(text, file_path, _analyze_system_prompt_staticness(text))

\* ---- prompt routing ----

\* r'arn:aws:bedrock:[a-z0-9\-]+:\d+:prompt-router/[a-z0-9]+', lowercased
router_arn_pattern ==
    Cat(<<Lit("arn:aws:bedrock:"), Plus(HostChars), Lit(":"), Plus(Digit),
          Lit(":prompt-router/"), Plus(LowerAlnum)>>)

RouterFindings(text, file_path, hits) ==
    [k \in 1..Len(hits) |->
        [type |-> "prompt_routing_detected", file |-> file_path,
         line |-> LineOf(text, hits[k].b), router_arn |-> Matched(text, hits[k])]]

RoutersOf(text, file_path) ==
    RouterFindings(text, file_path, RxFindAll(router_arn_pattern, Lower(text)))

\* \b...\b around a pattern
Bounded(r) == Cat(<<WordBoundary, r, WordBoundary>>)

Scored(score, r) == [score |-> score, rx |-> Bounded(r)]

complexity_indicators ==
    <<Scored(1, Lit("summarize")), Scored(1, Lit("list")), Scored(1, Lit("extract")),
      Scored(1, Lit("brief")), Scored(1, Lit("concise")),
      Scored(2, Lit("explain")), Scored(2, Lit("describe")), Scored(2, Lit("outline")),
      Scored(3, Lit("analyze")), Scored(3, Lit("compare")), Scored(3, Lit("assess")),
      Scored(3, Lit("evaluate")),
      Scored(4, Cat(<<Lit("detailed"), WordBoundary, Star(Dot), WordBoundary,
                      Lit("analysis")>>)),
      Scored(4, Lit("multiple perspectives")), Scored(4, Lit("comprehensive")),
      Scored(4, Lit("systematically")), Scored(4, Lit("reasoning")),
      Scored(4, Lit("think step by step")),
      Scored(5, Lit("extremely detailed")), Scored(5, Lit("research-level")),
      Scored(5, Lit("in great detail")),
      Scored(5, Cat(<<Lit("carefully"), Star(Dot), Lit("evaluate"), Star(Dot),
                      Lit("multiple")>>)),
      Scored(5, Lit("consider edge cases"))>>

\* level_scores, as a set
LevelScores(text_lower) ==
    {complexity_indicators[k].score :
        k \in {k \in 1..Len(complexity_indicators) :
                  RxSearch(complexity_indicators[k].rx, text_lower).found}}

HighestOr(scores, otherwise) == IF scores = {} THEN otherwise ELSE Greatest(scores)

_estimate_prompt_complexity(prompt_text) == HighestOr(LevelScores(Lower(prompt_text)), 2)

Complexities(prompts_found) ==
    {_estimate_prompt_complexity(prompts_found[k].text) : k \in 1..Len(prompts_found)}

\* min, max and range of the complexities
Variation(complexities) ==
    [min |-> Least(complexities), max |-> Greatest(complexities),
     range |-> Greatest(complexities) - Least(complexities)]

\* the first raw match of BEDROCK_MODEL_ID_PATTERN
FirstModelOf(text, hits) ==
    IF hits = <<>> THEN NoText ELSE Group(text, hits[1], 1)

FirstModel(text) == FirstModelOf(text, ModelMatches(text))

\* str() of a field that may be None
TextOf(x) == IF x = NoText THEN Chars("None") ELSE x

DisplayName(parsed_id) ==
    IF parsed_id.tier # NoText
    THEN TextOf(parsed_id.family) \o <<"-">> \o parsed_id.tier
    ELSE parsed_id.family

MixedComplexity(file_path, prompts_found, varied, id) ==
    IF varied.range < 2 THEN <<>>
    ELSE IF id = NoText THEN <<>>
    ELSE IF ~IsPremium(id) THEN <<>>
    ELSE <<[type |-> "prompt_routing_opportunity",
            subtype |-> "mixed_complexity_prompts",
            file |-> file_path, line |-> prompts_found[1].line,
            current_model |-> id,
            current_model_display |-> DisplayName(_parse_model_id(id)),
            complexity_variation |-> [min |-> varied.min, max |-> varied.max,
                                      range |-> varied.range,
                                      prompt_count |-> Len(prompts_found)]]>>

\* _analyze_prompt_complexity_variation with the prompts it is given
ComplexityVariation(file_path, prompts_found, first_model) ==
    IF Len(prompts_found) < 2 THEN <<>>
    ELSE MixedComplexity(file_path, prompts_found,
                         Variation(Complexities(prompts_found)), first_model)

\* model_findings = [f for f in existing_findings if f.get('type') == 'bedrock_model_usage']
ModelUsage(existing_findings) ==
    SelectSeq(existing_findings, LAMBDA f : f.type = "bedrock_model_usage")

\* the keys of models_by_family in the order of their insertion
Families(model_findings) ==
    LET family(k) == model_findings[k].parsed.family
        first == SelectSeq([k \in 1..Len(model_findings) |-> k],
                           LAMBDA k : IF family(k) = NoText THEN FALSE
                                      ELSE \A j \in 1..(k - 1) : family(j) # family(k))
    IN [n \in 1..Len(first) |-> family(first[n])]

PremiumModels(model_findings) ==
    SelectSeq(model_findings, LAMBDA f : IsPremium(f.model_id))

SameFamily(file_path, family, models) ==
    IF \A k \in 1..Len(models) : models[k].model_id = models[1].model_id THEN <<>>
    ELSE <<[type |-> "prompt_routing_opportunity",
            subtype |-> "multiple_models_same_family",
            file |-> file_path, line |-> models[1].line,
            model_family |-> family,
            models_detected |-> [k \in 1..Len(models) |-> models[k].model_id]]>>

\* Opportunity 1, family by family
SameFamilyRounds(file_path, model_findings, families) ==
    Flatten([n \in 1..Len(families) |->
                SameFamily(file_path, families[n],
                           SelectSeq(model_findings,
                                     LAMBDA f : f.parsed.family = families[n]))])

PremiumMixed(file_path, model_info, large_strings) ==
    IF Len(large_strings) < 2 THEN <<>>
    ELSE IF Variation(Complexities(large_strings)).range < 2 THEN <<>>
    ELSE <<[type |-> "prompt_routing_opportunity",
            subtype |-> "premium_tier_with_mixed_complexity",
            file |-> file_path, line |-> model_info.line,
            current_model |-> model_info.model_id,
            tier_level |-> _analyze_model_tier(model_info.model_id).tier,
            complexity_variation |-> Variation(Complexities(large_strings))]>>

\* Opportunity 3: one call of _find_prompts for each premium model, up to
\* the first that yields a finding; prompt_lists[k] is what the k-th returns
RECURSIVE PremiumLoop(_, _, _, _)
PremiumLoop(file_path, premium_models, prompt_lists, k) ==
    IF k > Len(premium_models) THEN [found |-> <<>>, asked |-> k - 1]
    ELSE IF PremiumMixed(file_path, premium_models[k], prompt_lists[k]) # <<>>
    THEN [found |-> PremiumMixed(file_path, premium_models[k], prompt_lists[k]),
          asked |-> k]
    ELSE PremiumLoop(file_path, premium_models, prompt_lists, k + 1)

\* if premium_models and not models_by_family
PremiumAlone(model_findings) ==
    IF PremiumModels(model_findings) = <<>> THEN FALSE
    ELSE Families(model_findings) = <<>>

\* how many times the step may call _find_prompts
RoutingCalls(routers, model_findings) ==
    IF routers # <<>> THEN 0
    ELSE IF model_findings = <<>> THEN 0
    ELSE IF PremiumAlone(model_findings) THEN 1 + Len(PremiumModels(model_findings))
    ELSE 1

Opportunities(file_path, model_findings, first_model, prompt_lists, premium) ==
    [found |-> SameFamilyRounds(file_path, model_findings, Families(model_findings))
               \o ComplexityVariation(file_path, prompt_lists[1], first_model)
               \o premium.found,
     asked |-> 1 + premium.asked]

\* mutant: opportunities are suggested beside the routers found
Routing_SuggestAnyway(file_path, routers, model_findings, first_model, prompt_lists) ==
    IF model_findings = <<>> THEN [found |-> routers, asked |-> 0]
    ELSE [found |-> routers
                    \o SameFamilyRounds(file_path, model_findings,
                                        Families(model_findings)),
          asked |-> 0]

\* _detect_prompt_routing: its findings and the number of calls of
\* _find_prompts it made; prompt_lists are the results of those calls
Routing(file_path, routers, model_findings, first_model, prompt_lists) ==
    IF routers # <<>> THEN [found |-> routers, asked |-> 0]
    ELSE IF model_findings = <<>> THEN [found |-> <<>>, asked |-> 0]
    ELSE Opportunities(file_path, model_findings, first_model, prompt_lists,
             IF PremiumAlone(model_findings)
             THEN PremiumLoop(file_path, PremiumModels(model_findings),
                              Tail(prompt_lists), 1)
             ELSE [found |-> <<>>, asked |-> 0])

\* ---- service tier ----

\* lowercased (re.IGNORECASE)
service_tier_patterns ==
    <<Cat(<<Quote, Lit("service_tier"), Quote, Star(Space), Lit(":"), Star(Space),
            Quote, Grp(1, Plus(Word)), Quote>>),
      Cat(<<Lit("service_tier"), Star(Space), Lit("="), Star(Space),
            Quote, Grp(1, Plus(Word)), Quote>>),
      Cat(<<Lit("servicetier"), Star(Space), Lit(":"), Star(Space),
            Quote, Grp(1, Plus(Word)), Quote>>)>>

\* the category of _get_service_tier_info
TierCategory(tier_value) ==
    IF tier_value = Chars("reserved") THEN "ultra-premium"
    ELSE IF tier_value = Chars("priority") THEN "premium"
    ELSE IF tier_value \in {Chars("default"), Chars("standard")} THEN "standard"
    ELSE IF tier_value = Chars("flex") THEN "cost-optimized"
    ELSE "unknown"

TierFinding(file_path, line_num, tier_value) ==
    [type |-> "bedrock_service_tier", file |-> file_path, line |-> line_num,
     service_tier |-> tier_value, tier_category |-> TierCategory(tier_value)]

TiersOf(text_lower, file_path, hits) ==
    [k \in 1..Len(hits) |->
        TierFinding(file_path, LineOf(text_lower, hits[k].b),
                    Group(text_lower, hits[k], 1))]

ConfiguredTiers(text_lower, file_path) ==
    Flatten([p \in 1..Len(service_tier_patterns) |->
                TiersOf(text_lower, file_path,
                        RxFindAll(service_tier_patterns[p], text_lower))])

\* where the literal opened just before index p ends: the index of its
\* closing quote, len(content) when it is not closed
LiteralEnd(c, p, q) ==
    Least({j \in p..Len(c) : IF j = Len(c) THEN TRUE ELSE ClosesLiteral(c, j, q)})

\* the while loop of _find_matching_paren from index p on at nesting depth d
RECURSIVE ParenScan(_, _, _)
ParenScan(c, p, d) ==
    IF p >= Len(c) THEN -1
    ELSE IF At(c, p) = LPAREN THEN ParenScan(c, p + 1, d + 1)
    ELSE IF At(c, p) = RPAREN THEN IF d = 1 THEN p ELSE ParenScan(c, p + 1, d - 1)
    ELSE IF At(c, p) \in {DQUOTE, SQUOTE}
    THEN ParenScan(c, LiteralEnd(c, p + 1, At(c, p)) + 1, d)
    ELSE ParenScan(c, p + 1, d)

_find_matching_paren(c, p) ==
    IF NotAtOpenParen(c, p) THEN -1 ELSE ParenScan(c, p + 1, 1)

\* the text searched for the service tier of one call
CallContext(text, call_start, call_end) ==
    IF call_end = -1 THEN Window(text, call_start, 300)
    ELSE SubSeq(text, call_start + 1, call_end + 1)

MissingTier(text, file_path, api_name, m) ==
    IF AnySearch(service_tier_patterns,
                 Lower(CallContext(text, m.b, _find_matching_paren(text, m.e - 1))))
    THEN <<>>
    ELSE <<[type |-> "bedrock_service_tier_missing", file |-> file_path,
            line |-> LineOf(text, m.b), api_call |-> api_name]>>

MissingTiersOf(text, file_path, api_name, hits) ==
    Flatten([k \in 1..Len(hits) |-> MissingTier(text, file_path, api_name, hits[k])])

MissingTiers(text, file_path) ==
    Flatten([p \in 1..Len(INVOKE_PATTERNS) |->
                MissingTiersOf(text, file_path, INVOKE_PATTERNS[p],
                               RxFindAll(InvokeRx(INVOKE_PATTERNS[p]), text))])

_detect_service_tier(text, file_path) ==
    ConfiguredTiers(Lower(text), file_path) \o MissingTiers(text, file_path)

\* ---- file links ----

\* the link to a line of a file
create_file_link(file_path, line_num) == [file |-> file_path, line |-> line_num]

\* mutant: every finding gets a link, to line 0 when it has no line
Linked_Always(finding) ==
    [k \in DOMAIN finding \cup {"file_link"} |->
        IF k = "file_link"
        THEN create_file_link(finding.file,
                              IF "line" \in DOMAIN finding THEN finding.line ELSE 0)
        ELSE finding[k]]

\* if 'line' in finding and finding.get('file'): finding['file_link'] = ...
Linked(finding) ==
    IF "line" \notin DOMAIN finding THEN finding
    ELSE IF finding.file = "" THEN finding
    ELSE [k \in DOMAIN finding \cup {"file_link"} |->
             IF k = "file_link" THEN create_file_link(finding.file, finding.line)
             ELSE finding[k]]

AddFileLinks(found) == [k \in 1..Len(found) |-> Linked(found[k])]

\* ---- the files analyzed ----

Source(path, text) == [path |-> path, content |-> text]

Files ==
    <<Source("util.py", Chars("def add(a, b):\n    return a + b\n")),
      Source("limits.py", Chars("max_tokens = 100\n")),
      Source("chat.py", Chars("reply = room.converse(history, service_tier=\"flex\")\n")),
      Source("big.py",
             Chars("max_tokens = ") \o Repeat("9", IntMaxStrDigits + 1) \o Chars("\n")),
      Source("invoke.py",
             Chars("import boto3\nclient = boto3.client(\"bedrock-runtime\")\n")
             \o Chars("FALLBACK = \"anthropic.claude-3-haiku-20240307-v1:0\"\n")
             \o Chars("response = client.invoke_model(\n")
             \o Chars("    modelId=\"anthropic.claude-3-5-sonnet-20240620-v1:0\",\n")
             \o Chars("    body=json.dumps({\"max_tokens\": 8000}),\n)\n")),
      Source("lambda/handler.py",
             Chars("from strands.models import BedrockModel\n")
             \o Chars("model = BedrockModel(model_id=\"us.anthropic.claude-3-haiku-20240307-v1:0\", streaming=True)\n")),
      Source("nova.ts",
             Chars("const MODEL = \"us.amazon.nova-pro-v1:0\";\n")
             \o Chars("const body = {serviceTier: \"priority\"};\n")),
      Source("agent.py",
             Chars("from strands import Agent\n")
             \o Chars("MODEL = \"global.anthropic.claude-sonnet-4-20250514-v1:0\"\n")
             \o Chars("agent = Agent(system_prompt=f\"Help {user_name} today.\")\n")
             \o Chars("cache = {\"cachePoint\": {\"type\": \"default\"}}\n")),
      Source("cached.py",
             Chars("# earlier: anthropic.claude-3-opus-20240229-v1:0\n")
             \o Chars("MODEL = \"amazon.nova-lite-v1:0\"\n")
             \o Chars("block = {\"cache_control\": {\"type\": \"ephemeral\"}}\n")),
      Source("router.py",
             Chars("ROUTER = \"arn:aws:bedrock:us-east-1:123456789012:prompt-router/abc123\"\n")
             \o Chars("FALLBACK = \"anthropic.claude-3-haiku-20240307-v1:0\"\n")),
      Source("distill.py", Chars("MODEL = \"deepseek.r1-distill-llama-70b\"\n")),
      Source("openai.py",
             Chars("from openai import OpenAI\n")
             \o Chars("client = OpenAI(base_url=\"https://bedrock-runtime.us-east-1.amazonaws.com/openai/v1\")\n")
             \o Chars("reply = client.chat.completions.create(model=\"openai.gpt-oss-120b-1:0\", stream=True)\n")),
      Source("prompts.py",
             Chars("MODEL = \"amazon.nova-pro-v1:0\"\n")
             \o Chars("system_prompt = \"\"\"")
             \o Padded(Chars("You are a code reviewer. "),
                       Chars("Check every changed line.\nKeep the answer short. "),
                       3 * MinPromptLength)
             \o Chars("\"\"\"\n")),
      Source("review.py",
             Chars("MODEL = \"us.amazon.nova-pro-v1:0\"\n")
             \o Chars("system_prompt = \"\"\"")
             \o Padded(Chars("You are a code reviewer. "),
                       Chars("Check every changed line.\nKeep the answer short. "),
                       3 * MinPromptLength)
             \o Chars("\"\"\"\n")
             \o Chars("block = {\"cacheControl\": {\"type\": \"ephemeral\"}}\n"))>>

\* a sequence with its elements evaluated
Listed(q) == SelectSeq(q, LAMBDA x : TRUE)

\* what the steps find in a file, as far as it does not depend on the
\* prompts or on the findings of earlier steps
DetectedIn(file) ==
    [client |-> ClientFindings(file.path, _has_bedrock_client(file.content)),
     strands |-> _detect_strands_bedrock_model(file.content, file.path),
     models |-> _detect_models(file.content, file.path),
     api_calls |-> _detect_api_calls(file.content, file.path),
     token_settings |-> Listed(TokenMatches(file.content)),
     tokens |-> Listed(_detect_token_patterns(file.content, file.path)),
     nova |-> NovaUse(file.content),
     cross_region |-> _detect_caching_cross_region_antipattern(file.content, file.path),
     dynamic |-> _detect_dynamic_system_prompts(file.content, file.path),
     routers |-> Listed(RoutersOf(file.content, file.path)),
     first_model |-> FirstModel(file.content),
     regex_prompts |-> RegexPrompts(file.content),
     service_tier |-> _detect_service_tier(file.content, file.path)]

Detected == Listed([f \in 1..Len(Files) |-> DetectedIn(Files[f])])

\* the files analyze is called on
Analyzed ==
    {f \in 1..Len(Files) :
        Files[f].path \in {"limits.py", "chat.py", "big.py", "invoke.py", "agent.py",
                           "prompts.py", "review.py"}}

\* what the prompt helper may do in one call of _find_prompts
AnalyzeAnswers ==
    {a \in HelperAnswers :
        IF a.kind = "call raises" THEN TRUE ELSE a.items = <<GoodItem, DeepItem>>}

\* ---- analyze, step by step ----

AnalyzeInit ==
    /\ ScanIdle /\ ParseIdle /\ MatchIdle /\ StaticIdle /\ PromptsIdle /\ DetectIdle /\ FisIdle /\ ResetIdle /\ CacheFileIdle
    /\ calls = <<>>
    /\ an_file = 0
    /\ an_answers = <<>>
    /\ findings = <<>>
    /\ an_pc = "idle"
    /\ int_max_str_digits = Unread

\* findings.extend(found), and on to the next step
Extend(found, to) ==
    /\ findings' = findings \o found
    /\ an_pc' = to
    /\ UNCHANGED <<calls, an_file, an_answers, int_max_str_digits>>
    /\ UNCHANGED notAnalyzeVars

\* the call ends: what it was called on, what the helper answered, how it
\* ended and what it returned
Ended(outcome, returned) ==
    [file |-> an_file, answers |-> an_answers, outcome |-> outcome,
     findings |-> returned]

\* mutant: the list of findings outlives the call
AnalyzeBegin_KeepFindings ==
    /\ an_pc = "idle"
    /\ Len(calls) < MaxCalls
    /\ an_file' \in Analyzed
    /\ UNCHANGED findings
    /\ an_answers' = <<>>
    /\ an_pc' = "client"
    /\ UNCHANGED <<calls, int_max_str_digits>>
    /\ UNCHANGED notAnalyzeVars

\* analyze(content, file_path): findings = []
AnalyzeBegin ==
    /\ an_pc = "idle"
    /\ Len(calls) < MaxCalls
    /\ an_file' \in Analyzed
    /\ findings' = <<>>
    /\ an_answers' = <<>>
    /\ an_pc' = "client"
    /\ UNCHANGED <<calls, int_max_str_digits>>
    /\ UNCHANGED notAnalyzeVars

AnalyzeClient ==
    /\ an_pc = "client"
    /\ Extend(Detected[an_file].client, "strands")

AnalyzeStrands ==
    /\ an_pc = "strands"
    /\ Extend(Detected[an_file].strands, "models")

AnalyzeModels ==
    /\ an_pc = "models"
    /\ Extend(Detected[an_file].models, "api_calls")

AnalyzeApiCalls ==
    /\ an_pc = "api_calls"
    /\ Extend(Detected[an_file].api_calls, "tokens")

\* the limits the interpreter may turn out to have when int() is given the
\* digits of the settings: the one already read, either one when it has not
\* been read and decides, and unread when it does not decide
Limits(settings) ==
    IF int_max_str_digits # Unread THEN {int_max_str_digits}
    ELSE IF TokensRaise(settings, IntMaxStrDigits) THEN {IntMaxStrDigits, 0}
    ELSE {Unread}

\* _detect_token_patterns: an int() that raises ends the call
AnalyzeTokens ==
    /\ an_pc = "tokens"
    /\ int_max_str_digits' \in Limits(Detected[an_file].token_settings)
    /\ IF TokensRaise(Detected[an_file].token_settings, int_max_str_digits')
       THEN /\ calls' = Append(calls, Ended("raised", <<>>))
            /\ an_pc' = "idle"
            /\ UNCHANGED findings
       ELSE /\ findings' = findings \o Detected[an_file].tokens
            /\ an_pc' = "nova"
            /\ UNCHANGED calls
    /\ UNCHANGED <<an_file, an_answers>>
    /\ UNCHANGED notAnalyzeVars

\* _detect_nova_explicit_caching_opportunity
AnalyzeNova ==
    /\ an_pc = "nova"
    /\ IF NovaAsksPrompts(Detected[an_file].nova)
       THEN \E answer \in AnalyzeAnswers :
               /\ findings' = findings
                      \o NovaCaching(Files[an_file].path, Detected[an_file].nova,
                                     FoundPrompts(answer, Detected[an_file].regex_prompts))
               /\ an_answers' = Append(an_answers, answer)
       ELSE /\ findings' = findings
                   \o NovaCaching(Files[an_file].path, Detected[an_file].nova, <<>>)
            /\ UNCHANGED an_answers
    /\ an_pc' = "cross_region"
    /\ UNCHANGED <<calls, an_file, int_max_str_digits>>
    /\ UNCHANGED notAnalyzeVars

AnalyzeCrossRegion ==
    /\ an_pc = "cross_region"
    /\ Extend(Detected[an_file].cross_region, "dynamic")

AnalyzeDynamicPrompts ==
    /\ an_pc = "dynamic"
    /\ Extend(Detected[an_file].dynamic, "routing")

\* what _find_prompts returns call by call
PromptLists(answers, regex_prompts) ==
    [k \in 1..Len(answers) |-> FoundPrompts(answers[k], regex_prompts)]

Routed(found_here, existing_findings, answers) ==
    Routing(Files[an_file].path, found_here.routers, ModelUsage(existing_findings),
            found_here.first_model, PromptLists(answers, found_here.regex_prompts))

RoutingDone(routed, answers) ==
    /\ findings' = findings \o routed.found
    /\ an_answers' = an_answers \o SubSeq(answers, 1, routed.asked)

\* _detect_prompt_routing(content, file_path, findings)
AnalyzeRouting ==
    /\ an_pc = "routing"
    /\ \E answers \in [1..RoutingCalls(Detected[an_file].routers, ModelUsage(findings))
                          -> AnalyzeAnswers] :
          RoutingDone(Routed(Detected[an_file], findings, answers), answers)
    /\ an_pc' = "service_tier"
    /\ UNCHANGED <<calls, an_file, int_max_str_digits>>
    /\ UNCHANGED notAnalyzeVars

AnalyzeServiceTier ==
    /\ an_pc = "service_tier"
    /\ Extend(Detected[an_file].service_tier, "links")

\* the file links are added; return findings
AnalyzeLinks ==
    /\ an_pc = "links"
    /\ findings' = AddFileLinks(findings)
    /\ calls' = Append(calls, Ended("returned", AddFileLinks(findings)))
    /\ an_pc' = "idle"
    /\ UNCHANGED <<an_file, an_answers, int_max_str_digits>>
    /\ UNCHANGED notAnalyzeVars

AnalyzeNext ==
    \/ AnalyzeBegin
    \/ AnalyzeClient
    \/ AnalyzeStrands
    \/ AnalyzeModels
    \/ AnalyzeApiCalls
    \/ AnalyzeTokens
    \/ AnalyzeNova
    \/ AnalyzeCrossRegion
    \/ AnalyzeDynamicPrompts
    \/ AnalyzeRouting
    \/ AnalyzeServiceTier
    \/ AnalyzeLinks

SpecAnalyze == AnalyzeInit /\ [][AnalyzeNext]_vars

\* ---- the claims about analyze ----

\* C6, as amended: two calls of analyze on the same file during which the
\* prompt helper answers alike end alike and return the same findings in
\* the same order, whatever calls were made before or between them
C6_SameAnswersSameFindings ==
    \A i, j \in 1..Len(calls) :
        (calls[i].file = calls[j].file /\ calls[i].answers = calls[j].answers)
        => (calls[i].outcome = calls[j].outcome /\ calls[i].findings = calls[j].findings)

\* a file analyzed, another one analyzed, the first analyzed again with the
\* helper answering as before
C6_Witness ==
    /\ Len(calls) = 3
    /\ calls[1].file = calls[3].file
    /\ calls[2].file # calls[1].file
    /\ calls[1].answers # <<>>
    /\ calls[1].answers = calls[3].answers
    /\ calls[1].outcome = "returned"
    /\ calls[1].findings # <<>>
    /\ calls[2].findings # <<>>

\* C6, as stated: two calls of analyze on the same file return the same
\* findings
C6_SameFileSameFindings ==
    \A i, j \in 1..Len(calls) :
        calls[i].file = calls[j].file => calls[i].findings = calls[j].findings

\* the files without a Bedrock client, import or model identifier
BedrockFree ==
    {f \in 1..Len(Files) :
        /\ Detected[f].client = <<>>
        /\ Detected[f].first_model = NoText
        /\ ~Contains(Lower(Files[f].content), "bedrock")}

\* C7: a call of analyze on a file without any Bedrock token returns the
\* empty list
C7_NoBedrockNoFindings ==
    \A k \in 1..Len(calls) :
        calls[k].file \in BedrockFree
        => (calls[k].outcome = "returned" /\ calls[k].findings = <<>>)

\* C8: a step that fails does not end the call: every call of analyze
\* returns
C8_FailureIsolated ==
    \A k \in 1..Len(calls) : calls[k].outcome = "returned"

\* the findings of before are all there, unchanged and in their places
Kept(before, after) ==
    /\ Len(before) <= Len(after)
    /\ SubSeq(after, 1, Len(before)) = before

\* the post-pass links this finding
HasLineAndFile(finding) ==
    IF "line" \in DOMAIN finding THEN finding.file # "" ELSE FALSE

\* after is before with a file_link field added and nothing else changed
OnlyLinkAdded(before, after) ==
    /\ DOMAIN after = DOMAIN before \cup {"file_link"}
    /\ "file_link" \notin DOMAIN before
    /\ \A f \in DOMAIN before : after[f] = before[f]

\* C28: inside analyze a finding once appended is never changed, removed or
\* moved by a later step, the routing step included; the post-pass alone
\* changes findings: it adds file_link to exactly those with a line key and
\* a non-empty file and leaves every other field and finding as it was
C28_FindingsWriteOnce ==
    [][/\ an_pc \notin {"idle", "links"} => Kept(findings, findings')
       /\ an_pc = "links"
          => /\ Len(findings') = Len(findings)
             /\ \A k \in 1..Len(findings) :
                   IF HasLineAndFile(findings[k])
                   THEN OnlyLinkAdded(findings[k], findings'[k])
                   ELSE findings'[k] = findings[k]]_vars

\* a call has returned findings of the routing step beside those it read,
\* some with a file link and the one without a line without
C28_Witness ==
    \E c \in 1..Len(calls) :
        /\ calls[c].outcome = "returned"
        /\ \E i, j, r \in 1..Len(calls[c].findings) :
              /\ calls[c].findings[i].type = "bedrock_model_usage"
              /\ "file_link" \in DOMAIN calls[c].findings[i]
              /\ "file_link" \notin DOMAIN calls[c].findings[j]
              /\ calls[c].findings[r].type = "prompt_routing_opportunity"
              /\ i < r

OfType(found, type) == {k \in 1..Len(found) : found[k].type = type}

\* C29: in one call of analyze the Nova caching step and the cross-region
\* caching step agree on whether the file enables caching: the findings never
\* hold both a nova_explicit_caching_opportunity finding (no caching marker
\* seen) and a caching_cross_region_antipattern finding (a marker seen)
C29_CachingStepsAgree ==
    \/ OfType(findings, "nova_explicit_caching_opportunity") = {}
    \/ OfType(findings, "caching_cross_region_antipattern") = {}

(***************************************************************************)
(* The detectors called on their own                                       *)
(*                                                                         *)
(* Each action is one call of one detector on a content composed from a    *)
(* few parts; detection holds which detector was called, the parts of the  *)
(* content, what the prompt helper did during the call and the findings    *)
(* returned.                                                               *)
(***************************************************************************)

DetectInit ==
    /\ ScanIdle /\ ParseIdle /\ MatchIdle /\ StaticIdle /\ PromptsIdle /\ AnalyzeIdle /\ FisIdle /\ ResetIdle /\ CacheFileIdle
    /\ detection = NoDetection

\* the answer recorded for a detector that does not ask the helper
NotAsked == [kind |-> "not asked", items |-> <<>>]

Detection(step, src, answer, found) ==
    [step |-> step, src |-> src, answer |-> answer, found |-> found]

\* ---- _detect_nova_explicit_caching_opportunity ----

\* a model line, a caching line and a prompt literal
NovaMentions ==
    <<"", "MODEL = \"amazon.nova-lite-v1:0\"\n", "MODEL = \"us.amazon.nova-pro-v1:0\"\n",
      "MODEL = \"anthropic.claude-3-haiku-20240307-v1:0\"\n">>

CachingMarkers ==
    <<"", "cache = {\"cachePoint\": {\"type\": \"default\"}}\n",
      "block = {\"cache_control\": {\"type\": \"ephemeral\"}}\n">>

\* the literal of a content: its notation ("plain" is an ordinary one-line
\* string), the length of its text and whether the text holds "You are"
NovaLiteral(notation, length, keyword) ==
    [notation |-> notation, length |-> length, keyword |-> keyword]

NovaLiterals ==
    <<NovaLiteral("none", 0, FALSE),
      NovaLiteral("python", 1000, TRUE),
      NovaLiteral("python", 1003, TRUE),
      NovaLiteral("python", 600, TRUE),
      NovaLiteral("python", 599, TRUE),
      NovaLiteral("python", 1000, FALSE),
      NovaLiteral("const", 1000, TRUE),
      NovaLiteral("plain", 1000, TRUE)>>

NovaLiteralText(lit) ==
    Padded(IF lit.keyword THEN Chars("You are a code reviewer. ")
           ELSE Chars("Notes for the code reviewer. "),
           Chars("Check every changed line. Keep the answer short. "), lit.length)

NovaStatement(lit) ==
    CASE lit.notation = "none" -> <<>>
      [] lit.notation = "python" ->
            Chars("system_prompt = \"\"\"") \o NovaLiteralText(lit) \o Chars("\"\"\"\n")
      [] lit.notation = "const" ->
            Chars("const reviewPrompt = ") \o <<BACKTICK>> \o NovaLiteralText(lit)
            \o <<BACKTICK>> \o Chars(";\n")
      [] lit.notation = "plain" ->
            Chars("system_prompt = \"") \o NovaLiteralText(lit) \o Chars("\"\n")

\* the contents, numbered: every model line with every caching line and
\* every literal
CachingSrc(i) ==
    [model |-> ((i - 1) \div (Len(CachingMarkers) * Len(NovaLiterals))) + 1,
     marker |-> (((i - 1) \div Len(NovaLiterals)) % Len(CachingMarkers)) + 1,
     literal |-> ((i - 1) % Len(NovaLiterals)) + 1]

CachingSrcs == 1..(Len(NovaMentions) * Len(CachingMarkers) * Len(NovaLiterals))

NovaContent(src) ==
    Chars(NovaMentions[src.model]) \o Chars(CachingMarkers[src.marker])
    \o NovaStatement(NovaLiterals[src.literal])

\* nova_matches[0] with the caching markers, and what the regex path of
\* _find_prompts finds
NovaSearched(text) == [nova |-> NovaUse(text), regex_prompts |-> RegexPrompts(text)]

\* the helper is asked only when the detector reaches _find_prompts
NovaAnswers(nova) == IF NovaAsksPrompts(nova) THEN HelperAnswers ELSE {NotAsked}

DetectNova ==
    /\ detection.step = "none"
    /\ \E i \in CachingSrcs :
          \E searched \in {NovaSearched(NovaContent(CachingSrc(i)))} :
             \E answer \in NovaAnswers(searched.nova) :
                detection' = Detection("nova", CachingSrc(i), answer,
                                       NovaCaching("app.py", searched.nova,
                                                   FoundPrompts(answer,
                                                                searched.regex_prompts)))
    /\ UNCHANGED notDetectVars

\* the parts of the content the detector was called on
NovaLiteralOf(d) == NovaLiterals[d.src.literal]
MentionsNova(d) == Contains(Chars(NovaMentions[d.src.model]), "amazon.nova-")
MentionsNovaLite(d) == Contains(Chars(NovaMentions[d.src.model]), "amazon.nova-lite-v1:0")
HasCachingMarker(d) == CachingMarkers[d.src.marker] # ""

\* the helper fails, returns the empty list or returns what cannot be read
HelperGivesNothing(answer) ==
    IF answer.kind # "returns" THEN TRUE
    ELSE IF answer.items = <<>> THEN TRUE
    ELSE \E k \in 1..Len(answer.items) : answer.items[k] = NotADict

OneOpportunity(found, tokens) ==
    /\ Len(found) = 1
    /\ found[1].type = "nova_explicit_caching_opportunity"
    /\ found[1].estimated_static_tokens = tokens
    /\ tokens >= 250

CachingEnabledOnly(d) ==
    (MentionsNova(d) /\ HasCachingMarker(d))
    => (Len(d.found) = 1 /\ d.found[1].type = "nova_explicit_caching_enabled")

NoNovaNothing(d) == ~MentionsNova(d) => d.found = <<>>

StrandsPaths ==
    <<"app.py", "lambda/app.py", "src/Lambda_fn.py", "handlers/chat.py", "api/server.py">>

StrandsPreambles ==
    <<"", "def lambda_handler(event, context):\n    return run(event)\n">>

StrandsModelArgs ==
    <<"model_id=\"anthropic.claude-3-sonnet-20240229-v1:0\"",
      "model_id='us.amazon.nova-lite-v1:0'", "model_id=MODEL_ID", "">>

StreamingArgs ==
    <<"", "streaming=True", "streaming=False", "streaming = true", "streaming=flag">>

StrandsSrc(i) ==
    [path |-> ((i - 1) \div (Len(StrandsPreambles) * Len(StrandsModelArgs)
                             * Len(StreamingArgs))) + 1,
     preamble |-> (((i - 1) \div (Len(StrandsModelArgs) * Len(StreamingArgs)))
                   % Len(StrandsPreambles)) + 1,
     model |-> (((i - 1) \div Len(StreamingArgs)) % Len(StrandsModelArgs)) + 1,
     streaming |-> ((i - 1) % Len(StreamingArgs)) + 1]

StrandsSrcs ==
    1..(Len(StrandsPaths) * Len(StrandsPreambles) * Len(StrandsModelArgs)
        * Len(StreamingArgs))

StrandsArgs(model_arg, streaming_arg) ==
    IF model_arg # "" /\ streaming_arg # ""
    THEN Chars(model_arg) \o Chars(", ") \o Chars(streaming_arg)
    ELSE Chars(model_arg) \o Chars(streaming_arg)

StrandsContent(src) ==
    Chars(StrandsPreambles[src.preamble]) \o Chars("model = BedrockModel(")
    \o StrandsArgs(StrandsModelArgs[src.model], StreamingArgs[src.streaming])
    \o Chars(")\n")

StrandsFound(src) ==
    _detect_strands_bedrock_model(StrandsContent(src), StrandsPaths[src.path])

DetectStrands ==
    /\ detection.step = "none"
    /\ \E i \in StrandsSrcs :
          detection' = Detection("strands", StrandsSrc(i), NotAsked,
                                 StrandsFound(StrandsSrc(i)))
    /\ UNCHANGED notDetectVars

\* the parts of the content the detector was called on
HasModelIdLiteral(d) == d.src.model \in {1, 2}
StreamingOn(d) == StreamingArgs[d.src.streaming] \in {"streaming=True", "streaming = true"}
StreamingOff(d) == StreamingArgs[d.src.streaming] = "streaming=False"
PathHas(d, word) == Contains(Lower(Chars(StrandsPaths[d.src.path])), word)
HasLambdaHandler(d) == StrandsPreambles[d.src.preamble] # ""

\* the three results
RiskResult(a) ==
    /\ a.status = "Streaming enabled in Lambda context"
    /\ "recommendation" \in DOMAIN a
    /\ "potential_savings" \in DOMAIN a
    /\ a.potential_savings = "10-20% reduction in Lambda execution costs"

AppropriateResult(a) ==
    /\ a.status = "Streaming enabled"
    /\ "recommendation" \notin DOMAIN a
    /\ "potential_savings" \notin DOMAIN a

SynchronousResult(a) ==
    /\ a.status = "Synchronous mode"
    /\ "recommendation" \notin DOMAIN a
    /\ "potential_savings" \notin DOMAIN a

\* the one finding of the configuration carries an assessment of this kind
Assessed(d, Result(_)) ==
    /\ Len(d.found) = 1
    /\ "streaming_assessment" \in DOMAIN d.found[1]
    /\ Result(d.found[1].streaming_assessment)

\* C12, as amended: a BedrockModel(...) configuration with a model_id
\* literal and streaming=True is assessed as the Lambda-streaming risk when
\* the path contains "lambda" or "handler" or the content contains
\* lambda_handler, and as appropriate otherwise; with streaming=False it is
\* assessed as synchronous; only the risk result has a recommendation and a
\* potential_savings estimate
C12_StreamingAssessed ==
    (detection.step = "strands" /\ HasModelIdLiteral(detection))
    => /\ (StreamingOn(detection)
           /\ (PathHas(detection, "lambda") \/ PathHas(detection, "handler")
               \/ HasLambdaHandler(detection)))
          => Assessed(detection, RiskResult)
       /\ (StreamingOn(detection)
           /\ ~PathHas(detection, "lambda") /\ ~PathHas(detection, "handler")
           /\ ~HasLambdaHandler(detection))
          => Assessed(detection, AppropriateResult)
       /\ StreamingOff(detection) => Assessed(detection, SynchronousResult)

\* streaming=True in handlers/chat.py, no lambda_handler in the content:
\* assessed as the risk
C12_Witness ==
    /\ detection.step = "strands"
    /\ HasModelIdLiteral(detection)
    /\ StreamingOn(detection)
    /\ StrandsPaths[detection.src.path] = "handlers/chat.py"
    /\ ~HasLambdaHandler(detection)
    /\ Assessed(detection, RiskResult)

\* C12, as stated: the Lambda context is a path containing "lambda" or a
\* content containing lambda_handler
C12_StreamingAsStated ==
    (detection.step = "strands" /\ HasModelIdLiteral(detection))
    => /\ (StreamingOn(detection)
           /\ (PathHas(detection, "lambda") \/ HasLambdaHandler(detection)))
          => Assessed(detection, RiskResult)
       /\ (StreamingOn(detection)
           /\ ~PathHas(detection, "lambda") /\ ~HasLambdaHandler(detection))
          => Assessed(detection, AppropriateResult)
       /\ StreamingOff(detection) => Assessed(detection, SynchronousResult)

\* ---- _detect_caching_cross_region_antipattern ----

CrossRegionMarkers ==
    CachingMarkers \o <<"const block = {cacheControl: {type: \"ephemeral\"}};\n">>

\* the model lines of a content, with the region prefixes of the model
\* identifiers outside comments, in the order of the lines
ModelLines(text, prefixes) == [text |-> text, prefixes |-> prefixes]

CrossRegionModels ==
    <<ModelLines("", <<>>),
      ModelLines("MODEL = \"anthropic.claude-3-haiku-20240307-v1:0\"\n", <<>>),
      ModelLines("MODEL = \"global.anthropic.claude-sonnet-4-20250514-v1:0\"\n",
                 <<"global">>),
      ModelLines("MODEL = \"us.amazon.nova-pro-v1:0\"\n", <<"us">>),
      ModelLines("MODEL = \"US.Anthropic.Claude-3-Haiku-20240307-v1:0\"\n", <<"us">>),
      ModelLines("FAST = \"eu.anthropic.claude-3-haiku-20240307-v1:0\"\n"
                 \o "DEEP = \"apac.anthropic.claude-3-5-sonnet-20240620-v1:0\"\n",
                 <<"eu", "apac">>),
      ModelLines("A = \"global.anthropic.claude-sonnet-4-20250514-v1:0\"\n"
                 \o "B = \"anthropic.claude-3-haiku-20240307-v1:0\"\n"
                 \o "C = \"us.anthropic.claude-3-haiku-20240307-v1:0\"\n"
                 \o "D = \"global.anthropic.claude-sonnet-4-20250514-v1:0\"\n",
                 <<"global", "us", "global">>),
      ModelLines("# before: us.anthropic.claude-3-haiku-20240307-v1:0\n"
                 \o "MODEL = \"eu.amazon.nova-lite-v1:0\"\n", <<"eu">>)>>

\* the system prompt of a content
CrossRegionPrompts ==
    <<"", "system_prompt = \"You are a helpful assistant.\"\n",
      "system_prompt = f\"Help {user_name} with {topic}.\"\n",
      "system_prompt = f\"Today is a good day.\"\n">>

CrossRegionSrc(i) ==
    [marker |-> ((i - 1) \div (Len(CrossRegionModels) * Len(CrossRegionPrompts))) + 1,
     models |-> (((i - 1) \div Len(CrossRegionPrompts)) % Len(CrossRegionModels)) + 1,
     prompt |-> ((i - 1) % Len(CrossRegionPrompts)) + 1]

CrossRegionSrcs ==
    1..(Len(CrossRegionMarkers) * Len(CrossRegionModels) * Len(CrossRegionPrompts))

CrossRegionContent(src) ==
    Chars(CrossRegionModels[src.models].text) \o Chars(CrossRegionPrompts[src.prompt])
    \o Chars(CrossRegionMarkers[src.marker])

CrossRegionFound(src) ==
    _detect_caching_cross_region_antipattern(CrossRegionContent(src), "app.py")

DetectCrossRegion ==
    /\ detection.step = "none"
    /\ \E i \in CrossRegionSrcs :
          detection' = Detection("cross_region", CrossRegionSrc(i), NotAsked,
                                 CrossRegionFound(CrossRegionSrc(i)))
    /\ UNCHANGED notDetectVars

\* the region prefixes the findings are expected for
PrefixesOf(d) ==
    IF CrossRegionMarkers[d.src.marker] = "" THEN <<>>
    ELSE CrossRegionModels[d.src.models].prefixes

SeverityOf(prefix, is_static) ==
    IF is_static THEN "info" ELSE IF prefix = "global" THEN "high" ELSE "medium"

\* C13: the findings of _detect_caching_cross_region_antipattern are, in
\* order, one caching_cross_region_antipattern finding for each model
\* identifier with a region prefix when the content has a caching marker,
\* and none otherwise; the severity is info when the prompt analysis is
\* static, else high for global and medium for us, eu and apac
C13_CrossRegionFindings ==
    detection.step = "cross_region"
    => /\ Len(detection.found) = Len(PrefixesOf(detection))
       /\ \A k \in 1..Len(detection.found) :
             /\ detection.found[k].type = "caching_cross_region_antipattern"
             /\ detection.found[k].region_prefix = Chars(PrefixesOf(detection)[k])
             /\ detection.found[k].severity
                    = SeverityOf(PrefixesOf(detection)[k],
                                 detection.found[k].prompt_analysis.is_static)

\* a caching marker, a dynamic system prompt and three prefixed models among
\* four: high, medium, high
C13_Witness ==
    /\ detection.step = "cross_region"
    /\ PrefixesOf(detection) = <<"global", "us", "global">>
    /\ Len(detection.found) = 3
    /\ detection.found[1].severity = "high"
    /\ detection.found[2].severity = "medium"
    /\ ~detection.found[1].prompt_analysis.is_static

\* ---- _detect_prompt_routing ----

\* the router lines of a content, with the number of router ARNs in them
RouterLines(text, arns) == [text |-> text, arns |-> arns]

RoutingRouters ==
    <<RouterLines("", 0),
      RouterLines("ROUTER = \"arn:aws:bedrock:us-east-1:123456789012:prompt-router/abc123\"\n", 1),
      RouterLines("EAST = \"arn:aws:bedrock:us-east-1:123456789012:prompt-router/abc123\"\n"
                  \o "WEST = \"arn:aws:bedrock:us-west-2:123456789012:prompt-router/xyz789\"\n", 2),
      RouterLines("PAIR = [\"arn:aws:bedrock:us-east-1:123456789012:prompt-router/abc123\", "
                  \o "\"arn:aws:bedrock:us-east-1:123456789012:prompt-router/abc123\"]\n", 2),
      RouterLines("ROUTER = \"ARN:AWS:BEDROCK:US-EAST-1:123456789012:PROMPT-ROUTER/ABC123\"\n", 1)>>

RoutingModels ==
    <<"", "MODEL = \"anthropic.claude-3-5-sonnet-20240620-v1:0\"\n",
      "FAST = \"anthropic.claude-3-haiku-20240307-v1:0\"\n"
      \o "DEEP = \"anthropic.claude-3-5-sonnet-20240620-v1:0\"\n",
      "FAST = \"amazon.nova-micro-v1:0\"\nDEEP = \"anthropic.claude-3-opus-20240229-v1:0\"\n">>

\* no prompt literal, or a simple and a demanding one
RoutingPrompts ==
    <<<<>>,
      Chars("prompt = \"\"\"")
      \o Padded(Chars("You are a clerk. Summarize the ticket. "), Chars("Be brief. "),
                MinPromptLength)
      \o Chars("\"\"\"\ninstruction = \"\"\"")
      \o Padded(Chars("You are a reviewer. Give a comprehensive review. "),
                Chars("Weigh every trade-off. "), MinPromptLength)
      \o Chars("\"\"\"\n")>>

RoutingSrc(i) ==
    [routers |-> ((i - 1) \div (Len(RoutingModels) * Len(RoutingPrompts))) + 1,
     models |-> (((i - 1) \div Len(RoutingPrompts)) % Len(RoutingModels)) + 1,
     prompts |-> ((i - 1) % Len(RoutingPrompts)) + 1]

RoutingSrcs == 1..(Len(RoutingRouters) * Len(RoutingModels) * Len(RoutingPrompts))

RoutingContent(src) ==
    Chars(RoutingRouters[src.routers].text) \o Chars(RoutingModels[src.models])
    \o RoutingPrompts[src.prompts]

\* the router ARNs of a content, the model findings analyze has collected
\* when it calls the detector, the first model and the regex prompts
RoutingSearched(text) ==
    [routers |-> Listed(RoutersOf(text, "app.py")),
     models |-> ModelUsage(Listed(_detect_models(text, "app.py"))),
     first_model |-> FirstModel(text),
     regex_prompts |-> RegexPrompts(text)]

\* the findings and the answers of the helper that were used
RoutingDetection(src, routed, answers) ==
    Detection("routing", src, SubSeq(answers, 1, routed.asked), routed.found)

DetectRouting ==
    /\ detection.step = "none"
    /\ \E i \in RoutingSrcs :
          \E searched \in {RoutingSearched(RoutingContent(RoutingSrc(i)))} :
             \E answers \in [1..RoutingCalls(searched.routers, searched.models)
                                -> AnalyzeAnswers] :
                detection' =
                    RoutingDetection(RoutingSrc(i),
                                     Routing("app.py", searched.routers, searched.models,
                                             searched.first_model,
                                             PromptLists(answers, searched.regex_prompts)),
                                     answers)
    /\ UNCHANGED notDetectVars

RouterArns(d) == RoutingRouters[d.src.routers].arns

\* C14: on a content with at least one prompt-router ARN the detector
\* returns exactly one prompt_routing_detected finding per occurrence of an
\* ARN and no prompt_routing_opportunity finding, whatever the models and
\* the prompts
C14_RoutingInUse ==
    (detection.step = "routing" /\ RouterArns(detection) > 0)
    => /\ Len(detection.found) = RouterArns(detection)
       /\ \A k \in 1..Len(detection.found) :
             detection.found[k].type = "prompt_routing_detected"

\* two ARNs in a content with a cheap and an expensive model and two
\* prompts of different complexity
C14_Witness ==
    /\ detection.step = "routing"
    /\ RouterArns(detection) = 2
    /\ detection.src.models = 3
    /\ detection.src.prompts = 2
    /\ Len(detection.found) = 2
    /\ detection.found[2].type = "prompt_routing_detected"

\* the findings of the subtype premium_tier_with_mixed_complexity
PremiumMixedOf(found) ==
    {k \in 1..Len(found) :
        IF "subtype" \in DOMAIN found[k]
        THEN found[k].subtype = "premium_tier_with_mixed_complexity"
        ELSE FALSE}

\* every call of _find_prompts took the regex path
RegexPath(d) == \A k \in 1..Len(d.answer) : d.answer[k].kind # "returns"

\* C27: on a content with no prompt-router ARN, one premium model ID
\* (Claude 3.5 Sonnet) and two detected prompts whose complexities differ by
\* 2 or more (1 and 4) the detector emits a prompt_routing_opportunity
\* finding of subtype premium_tier_with_mixed_complexity; no content gets
\* more than one finding of that subtype
C27_PremiumTierMixedComplexity ==
    detection.step = "routing"
    => /\ Cardinality(PremiumMixedOf(detection.found)) <= 1
       /\ (/\ RouterArns(detection) = 0
           /\ detection.src.models = 2
           /\ detection.src.prompts = 2
           /\ RegexPath(detection))
          => Cardinality(PremiumMixedOf(detection.found)) = 1

\* the same models and prompts without a router: opportunities
RoutingSuggested ==
    /\ detection.step = "routing"
    /\ RouterArns(detection) = 0
    /\ \E k \in 1..Len(detection.found) :
          detection.found[k].type = "prompt_routing_opportunity"

\* ---- _detect_dynamic_system_prompts ----

\* a system_prompt assignment: its text, the identifiers it holds as
\* placeholders, and whether the patterns of the analysis read them (not
\* the placeholders of a .format template, and not those behind an escaped
\* quote)
Assignment(text, placeholders, read) ==
    [text |-> text, placeholders |-> placeholders, read |-> read]

SystemPrompts ==
    <<Assignment("", {}, TRUE),
      Assignment("system_prompt = f\"Help {user_name}.\"\n", {"user_name"}, TRUE),
      Assignment("system_prompt = f\"\"\"You help {user_name}\nwith {topic}.\"\"\"\n",
                 {"user_name", "topic"}, TRUE),
      Assignment("system_prompt = f'Today is { date }.'\n", {"date"}, TRUE),
      Assignment("system_prompt = f\"Sum: {1 + 2} for {user.name}.\"\n", {}, TRUE),
      Assignment("system_prompt = f\"{{literal}} braces\"\n", {}, TRUE),
      Assignment("system_prompt = \"You are a helpful assistant.\"\n", {}, TRUE),
      Assignment("agent = Agent(system_prompt=(\n    \"You are a helper. \"\n"
                 \o "    f\"Serve {tenant}.\"\n))\n", {"tenant"}, TRUE),
      Assignment("system_prompt = \"Help {name}.\".format(name=user)\n", {"name"}, FALSE),
      Assignment("system_prompt = f\"say \\\"hi\\\" to {user_name}\"\n", {"user_name"},
                 FALSE)>>

\* a content is two assignments, either of which may be missing
DynamicSrc(i) ==
    [first |-> ((i - 1) \div Len(SystemPrompts)) + 1,
     second |-> ((i - 1) % Len(SystemPrompts)) + 1]

DynamicSrcs == 1..(Len(SystemPrompts) * Len(SystemPrompts))

DynamicContent(src) ==
    Chars(SystemPrompts[src.first].text) \o Chars(SystemPrompts[src.second].text)

DynamicFound(src) == _detect_dynamic_system_prompts(DynamicContent(src), "app.py")

DetectDynamicPrompts ==
    /\ detection.step = "none"
    /\ \E i \in DynamicSrcs :
          detection' = Detection("dynamic", DynamicSrc(i), NotAsked,
                                 DynamicFound(DynamicSrc(i)))
    /\ UNCHANGED notDetectVars

\* the identifiers the assignments of the content hold, and those of them
\* the analysis reads
PlaceholdersOf(d) ==
    SystemPrompts[d.src.first].placeholders \cup SystemPrompts[d.src.second].placeholders

ReadOf(a) == IF a.read THEN a.placeholders ELSE {}

VariablesOf(d) == ReadOf(SystemPrompts[d.src.first]) \cup ReadOf(SystemPrompts[d.src.second])

Listing(names) == {names[k] : k \in 1..Len(names)}

\* C15: when the analysis finds dynamic variables in the system_prompt
\* assignments of a content the detector returns exactly one finding, of
\* type dynamic_system_prompt and severity high, whose dynamic_variables
\* are the names found, however many assignments and variables there are;
\* it returns nothing when no assignment holds a valid placeholder
\* identifier, and never more than one finding
C15_OneDynamicPromptFinding ==
    detection.step = "dynamic"
    => /\ Len(detection.found) <= 1
       /\ VariablesOf(detection) # {}
          => /\ Len(detection.found) = 1
             /\ detection.found[1].type = "dynamic_system_prompt"
             /\ detection.found[1].severity = "high"
             /\ Listing(detection.found[1].dynamic_variables)
                    = {Chars(name) : name \in VariablesOf(detection)}
       /\ PlaceholdersOf(detection) = {} => detection.found = <<>>

\* two assignments with three variables between them: one finding
C15_Witness ==
    /\ detection.step = "dynamic"
    /\ VariablesOf(detection) = {"user_name", "topic", "tenant"}
    /\ Len(detection.found) = 1
    /\ detection.found[1].severity = "high"
    /\ detection.found[1].system_prompts_found >= 2

\* the lines on which a match of a pattern of the analysis begins
LinesOfMatches(kind, text) ==
    {LineOf(text, RxFindAll(JobRx(kind), text)[k].b) :
        k \in 1..Len(RxFindAll(JobRx(kind), text))}

\* the lines on which the analysis matches a system_prompt assignment
SystemPromptMatchLines(text) ==
    UNION {LinesOfMatches(kind, text) :
              kind \in {"fstr1", "fstr2", "fstr3", "fstr4", "paren", "format"}}

\* C24: the line of a finding is null (written 0) or 1 plus the number of
\* newline characters before the start of the match that produced it; for a
\* dynamic_system_prompt finding that is a line on which one of the matches
\* of the system_prompt analysis begins
C24_LineOfProducingMatch ==
    detection.step = "dynamic"
    => \A k \in 1..Len(detection.found) :
          \/ detection.found[k].line = 0
          \/ detection.found[k].line
                \in SystemPromptMatchLines(DynamicContent(detection.src))

\* ---- service tiers of call sites ----

\* the calls composed into the contents: the name called
TierCallNames == <<"client.converse", "client.invoke_model", "client.converse_stream",
                   "ChatBedrock">>

\* the arguments of a call and whether a service_tier parameter is among them
TierArg(text, tier) == [text |-> text, tier |-> tier]

TierCallArgs ==
    <<TierArg("(messages=m)", FALSE),
      TierArg("(messages=m, service_tier=\"flex\")", TRUE),
      TierArg("(body=dumps({\"service_tier\": \"priority\"}))", TRUE),
      TierArg("({serviceTier: \"flex\"})", TRUE),
      TierArg("(messages=ask(\"a)\"))", FALSE),
      TierArg("(path='C:\\\\')", FALSE)>>

TierCalls == Len(TierCallNames) * Len(TierCallArgs)

\* index 0 is no call; a call is a name and its arguments
TierCall(i) ==
    [name |-> ((i - 1) \div Len(TierCallArgs)) + 1,
     arg |-> ((i - 1) % Len(TierCallArgs)) + 1]

TierCallText(i) ==
    IF i = 0 THEN <<>>
    ELSE Chars("r = ") \o Chars(TierCallNames[TierCall(i).name])
         \o Chars(TierCallArgs[TierCall(i).arg].text) \o Chars("\n")

TierSrc(i) == [first |-> (i - 1) \div (TierCalls + 1), second |-> (i - 1) % (TierCalls + 1)]

TierSrcs == 1..((TierCalls + 1) * (TierCalls + 1))

TierContent(src) == TierCallText(src.first) \o TierCallText(src.second)

TierFound(src) == _detect_service_tier(TierContent(src), "app.py")

DetectServiceTier ==
    /\ detection.step = "none"
    /\ \E i \in TierSrcs :
          detection' = Detection("tier", TierSrc(i), NotAsked, TierFound(TierSrc(i)))
    /\ UNCHANGED notDetectVars

\* the call sites of a detection: the lines that hold a call
CallSites(d) ==
    IF d.src.first = 0
    THEN (IF d.src.second = 0 THEN {} ELSE {[line |-> 1, call |-> d.src.second]})
    ELSE {[line |-> 1, call |-> d.src.first]}
         \cup (IF d.src.second = 0 THEN {} ELSE {[line |-> 2, call |-> d.src.second]})

\* the bedrock_service_tier_missing findings reported for a line
MissingAt(d, line) ==
    {k \in 1..Len(d.found) :
        /\ d.found[k].type = "bedrock_service_tier_missing"
        /\ d.found[k].line = line}

TierInSpan(site) == TierCallArgs[TierCall(site.call).arg].tier

\* C16: for each call site of the content exactly one
\* bedrock_service_tier_missing finding is emitted if and only if no
\* service_tier parameter occurs inside the call's own argument span; a
\* parameter of a different call, before or after, does not cover the call
C16_OneMissingTierPerCallSite ==
    detection.step = "tier"
    => \A site \in CallSites(detection) :
          Cardinality(MissingAt(detection, site.line))
             = IF TierInSpan(site) THEN 0 ELSE 1

\* ---- _analyze_system_prompt_staticness on two assignments ----

\* a line that formats a log message, after the assignments or not
LogLine(present) == IF present THEN Chars("log(\"x {}\".format(n))\n") ELSE <<>>

StaticnessSrcs ==
    {[first |-> DynamicSrc(i).first, second |-> DynamicSrc(i).second, log |-> l] :
        i \in DynamicSrcs, l \in BOOLEAN}

StaticnessContent(src) == DynamicContent(src) \o LogLine(src.log)

DetectStaticness ==
    /\ detection.step = "none"
    /\ \E src \in StaticnessSrcs :
          detection' = Detection("staticness", src, NotAsked,
                           _analyze_system_prompt_staticness(StaticnessContent(src)))
    /\ UNCHANGED notDetectVars

\* C26: when at least one system_prompt assignment is found the result is
\* is_static = False if and only if a placeholder holding a bare identifier
\* was found in some assignment, that is if and only if dynamic_variables
\* is non-empty; a placeholder that is not a bare identifier never makes
\* the result dynamic
C26_DynamicIffVariable ==
    (detection.step = "staticness" /\ detection.found.system_prompts_found > 0)
    => /\ ~detection.found.is_static <=> detection.found.dynamic_variables # <<>>
       /\ \A k \in 1..Len(detection.found.dynamic_variables) :
             IsIdentifier(detection.found.dynamic_variables[k])

\* ---- the two extractors of a parenthesised span ----

\* the calls nested inside an argument: none up to MaxSpanDepth deep
MaxSpanDepth == 3

RECURSIVE NestedCall(_, _, _)
\* name(name(... inner ...)), n calls deep
NestedCall(name, inner, n) ==
    IF n = 0 THEN Chars(inner)
    ELSE Chars(name) \o Chars("(") \o NestedCall(name, inner, n - 1) \o Chars(")")

SpanModelArg == Chars("model_id=\"amazon.nova-lite-v1:0\"")

\* a content: a system_prompt=( ... ) assignment whose concatenation nests
\* prompt_depth calls, and a BedrockModel(...) call whose config argument
\* nests model_depth calls and stands before or after model_id, with or
\* without streaming=True
SpanSrcs ==
    [model_depth : 0..MaxSpanDepth, prompt_depth : 0..MaxSpanDepth,
     config_first : BOOLEAN, streaming : BOOLEAN]

SpanModelArgs(src) ==
    (IF src.config_first
     THEN Chars("config=") \o NestedCall("dict", "3", src.model_depth)
          \o Chars(", ") \o SpanModelArg
     ELSE SpanModelArg \o Chars(", config=")
          \o NestedCall("dict", "3", src.model_depth))
    \o (IF src.streaming THEN Chars(", streaming=True") ELSE <<>>)

SpanContent(src) ==
    Chars("options = dict(system_prompt=(\"You are a helpful assistant. \" + ")
    \o NestedCall("describe", "TOOLS", src.prompt_depth) \o Chars("))\n")
    \o Chars("model = BedrockModel(") \o SpanModelArgs(src) \o Chars(")\n")

SpansFound(text) ==
    [strands |-> _detect_strands_bedrock_model(text, "app.py"),
     analysis |-> _analyze_system_prompt_staticness(text)]

DetectParenSpans ==
    /\ detection.step = "none"
    /\ \E src \in SpanSrcs :
          detection' = Detection("spans", src, NotAsked, SpansFound(SpanContent(src)))
    /\ UNCHANGED notDetectVars

\* the text between the parenthesis at 0-based index open and the one that
\* closes it (nothing when none closes it)
BalancedSpan(text, open) ==
    IF MatchingParen(text, open) = -1 THEN NoText
    ELSE SubSeq(text, open + 2, MatchingParen(text, open))

\* 0-based index of the last character of the first occurrence of a word
EndOf(text, word) == RxSearch(Lit(word), text).e - 1

\* C22: for a BedrockModel( ... ) call with balanced parentheses at any
\* nesting depth and a quoted model_id, the detector emits the one
\* strands_bedrock_model_config finding whose model_id and streaming are
\* read from the span that ends at the parenthesis matching the opening one;
\* and a system_prompt=( ... ) assignment with balanced parentheses at any
\* nesting depth is counted in system_prompts_found
C22_ExtractorsTakeBalancedSpan ==
    detection.step = "spans"
    => /\ detection.found.strands
          = StrandsRound(SpanContent(detection.src), "app.py", 2,
                         BalancedSpan(SpanContent(detection.src),
                                      EndOf(SpanContent(detection.src),
                                            "BedrockModel(")))
       /\ detection.found.analysis.system_prompts_found = 1

DetectNext ==
    \/ DetectParenSpans
    \/ DetectStaticness
    \/ DetectServiceTier
    \/ DetectNova
    \/ DetectDynamicPrompts
    \/ DetectRouting
    \/ DetectCrossRegion
    \/ DetectStrands

SpecDetect == DetectInit /\ [][DetectNext]_vars

(***************************************************************************)
(* The FIS cache server (aws_chaos_engineering): fis_cache.py, server.py   *)
(* and validators.py.  JSON values are records tagged with their kind; a   *)
(* JSON array is a sequence.  Time is counted in hours.                    *)
(***************************************************************************)

\* the clock stops at MaxClock hours and moves TickHours at a time
MaxClock == 24
TickHours == 12

\* self.cache_ttl, in seconds
cache_ttl == 24 * 60 * 60

Obj(fields) == [json |-> "object", fields |-> fields]
Str(text) == [json |-> "string", text |-> text]
Null == [json |-> "null"]

isinstance_dict(value) == value.json = "object"

\* d.get(key, default) of a dict
DictGet(d, key, default) == IF key \in DOMAIN d.fields THEN d.fields[key] ELSE default

\* the None of a timestamp
NoTimestamp == -1

\* the fis_data the agent passes to refresh_valid_fis_actions_cache
FisPayloads ==
    <<Null,
      Obj(<<>>),
      Obj([fis_actions |-> <<Obj([id |-> "aws:ec2:stop-instances"]),
                             Obj([id |-> "aws:ec2:reboot-instances"])>>,
           resource_types |-> <<Obj([type |-> "aws:ec2:instance"])>>]),
      Obj([fis_actions |-> <<Obj([id |-> "aws:ecs:stop-task"])>>,
           resource_types |-> <<Obj([type |-> "aws:ecs:task"])>>]),
      Obj([fis_actions |-> <<Str("aws:ec2:stop-instances")>>,
           resource_types |-> <<Str("aws:ec2:instance")>>]),
      Obj([fis_actions |-> <<Obj([id |-> "aws:ec2:stop-instances"])>>])>>

\* the payloads each region is refreshed with
PayloadsOf(region) ==
    IF region = "us-east-1" THEN 1..Len(FisPayloads)
    ELSE IF region = "eu-west-1" THEN {3, 4}
    ELSE IF region = "ap-south-1" THEN {4}
    ELSE {}

\* cache_file.exists()
Exists(region) == fis_files[region].exists

\* (current_time - file_mtime) < self.cache_ttl
_is_cache_fresh(region) ==
    IF Exists(region)
    THEN (fis_clock - fis_files[region].mtime) * 3600 < cache_ttl
    ELSE FALSE

get_cache_status(region) ==
    IF Exists(region)
    THEN (IF _is_cache_fresh(region) THEN "fresh" ELSE "stale")
    ELSE "empty"

\* the dict read from the cache file written by update_cache, None: Null
get_cached_data(region) ==
    IF Exists(region) THEN Obj(fis_files[region].data) ELSE Null

\* the entry update_cache writes
cache_entry(region, fis_data) ==
    [fis_actions |-> DictGet(fis_data, "fis_actions", <<>>),
     resource_types |-> DictGet(fis_data, "resource_types", <<>>),
     last_updated |-> fis_clock,
     region |-> region,
     cache_ttl_hours |-> 24]

\* pydantic's validation of a list[Dict[str, Any]] field
ListOfDicts(value) == \A k \in 1..Len(value) : isinstance_dict(value[k])

FISActionsResponse(fis_actions, resource_types, last_updated, region, cache_status, instruction) ==
    [tool |-> "get_valid_fis_actions", fis_actions |-> fis_actions,
     resource_types |-> resource_types, last_updated |-> last_updated,
     region |-> region, cache_status |-> cache_status, instruction |-> instruction]

\* the response of the except branch
FISActionsError(region) ==
    FISActionsResponse(<<>>, <<>>, NoTimestamp, region, "error", "Error accessing cache")

FISActionsFresh(region, cached_data) ==
    IF /\ ListOfDicts(DictGet(cached_data, "fis_actions", <<>>))
       /\ ListOfDicts(DictGet(cached_data, "resource_types", <<>>))
    THEN FISActionsResponse(DictGet(cached_data, "fis_actions", <<>>),
                            DictGet(cached_data, "resource_types", <<>>),
                            DictGet(cached_data, "last_updated", NoTimestamp),
                            region, "fresh", None)
    ELSE FISActionsError(region)

get_valid_fis_actions(region) ==
    IF get_cache_status(region) = "stale"
    THEN FISActionsResponse(<<>>, <<>>,
             IF isinstance_dict(get_cached_data(region))
             THEN DictGet(get_cached_data(region), "last_updated", NoTimestamp)
             ELSE NoTimestamp,
             region, "stale", "Cache is stale")
    ELSE IF get_cache_status(region) = "empty"
    THEN FISActionsResponse(<<>>, <<>>, NoTimestamp, region, "empty",
                            "No cached data available")
    ELSE FISActionsFresh(region, get_cached_data(region))

CacheUpdateResponse(success, message, last_updated, region) ==
    [tool |-> "refresh_valid_fis_actions_cache", success |-> success,
     message |-> message, last_updated |-> last_updated, region |-> region]

\* not fis_data: None or an empty dict
Falsy(fis_data) ==
    IF isinstance_dict(fis_data) THEN DOMAIN fis_data.fields = {} ELSE TRUE

FisInit ==
    /\ ScanIdle /\ ParseIdle /\ MatchIdle /\ StaticIdle /\ PromptsIdle /\ AnalyzeIdle /\ DetectIdle /\ ResetIdle /\ CacheFileIdle
    /\ fis_files = NoFiles
    /\ fis_clock = 0
    /\ fis_reply = NoReply

\* time passes
Tick ==
    /\ fis_clock < MaxClock
    /\ fis_clock' = fis_clock + TickHours
    /\ UNCHANGED <<fis_files, fis_reply>>
    /\ UNCHANGED notFisVars

GetValidFisActions ==
    /\ \E region \in FisRegions : fis_reply' = get_valid_fis_actions(region)
    /\ UNCHANGED <<fis_files, fis_clock>>
    /\ UNCHANGED notFisVars

\* refresh_valid_fis_actions_cache(region, fis_data); written says whether
\* update_cache could write the file
RefreshValidFisActionsCache ==
    /\ \E region \in FisRegions, p \in 1..Len(FisPayloads), written \in BOOLEAN :
          /\ p \in PayloadsOf(region)
          /\ IF Falsy(FisPayloads[p])
             THEN /\ fis_reply' = CacheUpdateResponse(FALSE, "No FIS data provided",
                                                      NoTimestamp, region)
                  /\ UNCHANGED fis_files
             ELSE IF written
             THEN /\ fis_files' = [fis_files EXCEPT ![region] =
                                      [exists |-> TRUE, mtime |-> fis_clock,
                                       data |-> cache_entry(region, FisPayloads[p])]]
                  /\ fis_reply' = CacheUpdateResponse(TRUE, "Cache updated successfully",
                                                      fis_clock, region)
             ELSE /\ fis_reply' = CacheUpdateResponse(FALSE, "Failed to update cache",
                                                      NoTimestamp, region)
                  /\ UNCHANGED fis_files
    /\ UNCHANGED fis_clock
    /\ UNCHANGED notFisVars

\* a step that is a call of get_valid_fis_actions
GetStep ==
    /\ fis_reply'.tool = "get_valid_fis_actions"
    /\ UNCHANGED <<fis_files, fis_clock>>

\* the region's cache file exists and is younger than 24 hours
YoungerThanADay(region) ==
    IF Exists(region) THEN fis_clock - fis_files[region].mtime < 24 ELSE FALSE

\* the response hands out the lists the region's cache file holds
CachedLists(response) ==
    /\ response.fis_actions = fis_files[response.region].data.fis_actions
    /\ response.resource_types = fis_files[response.region].data.resource_types

NoLists(response) ==
    /\ response.fis_actions = <<>>
    /\ response.resource_types = <<>>

\* what the response of get_valid_fis_actions is to be in the present state
\* of the cache
ServesFreshOnly(response) ==
    /\ response.cache_status \in {"fresh", "stale", "empty"}
    /\ IF YoungerThanADay(response.region)
       THEN /\ response.cache_status = "fresh"
            /\ response.instruction = None
            /\ CachedLists(response)
       ELSE /\ response.cache_status
                   = (IF Exists(response.region) THEN "stale" ELSE "empty")
            /\ NoLists(response)
            /\ response.instruction # None

\* the call follows at once a successful refresh of the same region
AfterRefresh ==
    /\ fis_reply.tool = "refresh_valid_fis_actions_cache"
    /\ fis_reply.success
    /\ fis_reply.last_updated = fis_clock
    /\ fis_reply'.region = fis_reply.region

\* C17: get_valid_fis_actions answers with cache_status fresh, stale or
\* empty; it returns the cached lists, with a null instruction, only when
\* the region's cache file exists and is younger than 24 hours, and empty
\* lists with a refresh instruction when the cache is stale or empty; right
\* after a successful refresh_valid_fis_actions_cache of the region the
\* status is fresh and the lists are the ones just stored
C17_NeverHandsOutStaleData ==
    [][GetStep
       => /\ ServesFreshOnly(fis_reply')
          /\ AfterRefresh
             => /\ fis_reply'.cache_status = "fresh"
                /\ CachedLists(fis_reply')]_vars

\* ---- validators.py ----

\* the templates given to validate_fis_template; a dict of named entries
\* (actions, targets, Resources, Actions, Targets) is the sequence of its
\* values
FisTemplates ==
    <<Obj(<<>>),
      Obj([actions |-> <<Obj([actionId |-> "aws:ec2:stop-instances"])>>,
           targets |-> <<Obj([resourceType |-> "aws:ec2:instance"])>>]),
      Obj([actions |-> <<Obj([actionId |-> "aws:ec2:explode"])>>,
           targets |-> <<Obj([resourceType |-> "aws:ec2:instance"])>>]),
      Obj([actions |-> <<Obj([actionId |-> "aws:ecs:stop-task"])>>,
           targets |-> <<Obj([resourceType |-> "aws:ecs:task"])>>]),
      Obj([Resources |->
              <<Obj([Properties |->
                        Obj([Actions |-> <<Obj([ActionId |-> "aws:ec2:explode"])>>,
                             Targets |-> <<Obj([ResourceType |-> "aws:ec2:volcano"])>>])])>>]),
      Obj([actions |-> <<Obj([actionId |-> "aws:ec2:stop-instances"]), Str("stop"),
                         Obj([description |-> "wait"])>>,
           targets |-> <<Obj([resourceType |-> "aws:ec2:volcano"])>>])>>

\* the truthy values of key in the dicts among entries
ValuesOf(entries, key) ==
    {DictGet(entries[k], key, "") :
        k \in {j \in 1..Len(entries) :
                  IF isinstance_dict(entries[j])
                  THEN DictGet(entries[j], key, "") # "" ELSE FALSE}}

\* the values of key in the section of each resource's Properties
InResources(template, section, key) ==
    UNION {ValuesOf(DictGet(DictGet(resource, "Properties", Obj(<<>>)), section, <<>>), key) :
              resource \in {DictGet(template, "Resources", <<>>)[k] :
                               k \in 1..Len(DictGet(template, "Resources", <<>>))}}

_extract_action_ids(template) ==
    ValuesOf(DictGet(template, "actions", <<>>), "actionId")
    \cup InResources(template, "Actions", "ActionId")

_extract_resource_types(template) ==
    ValuesOf(DictGet(template, "targets", <<>>), "resourceType")
    \cup InResources(template, "Targets", "ResourceType")

\* for region in ["us-east-1", "us-west-2", "eu-west-1"]
CommonRegions == <<"us-east-1", "us-west-2", "eu-west-1">>

\* the regions of the loop whose cache is fresh
FreshCommon == {k \in 1..Len(CommonRegions) : get_cache_status(CommonRegions[k]) = "fresh"}

\* the list the loop reads before its break: that of the first fresh region
FirstFresh(field) ==
    IF FreshCommon = {} THEN <<>>
    ELSE DictGet(get_cached_data(CommonRegions[Least(FreshCommon)]), field, <<>>)

_get_valid_action_ids == ValuesOf(FirstFresh("fis_actions"), "id")

_get_valid_resource_types == ValuesOf(FirstFresh("resource_types"), "type")

ValidationResult(t, valid, errors, warnings, invalid_actions, invalid_resource_types) ==
    [tool |-> "validate_fis_template", template |-> t, valid |-> valid,
     errors |-> errors, warnings |-> warnings, invalid_actions |-> invalid_actions,
     invalid_resource_types |-> invalid_resource_types,
     validation_timestamp |-> fis_clock]

\* the error messages: one for each entry of the two sets
ErrorsOf(invalid_actions, invalid_resource_types) ==
    {[message |-> "Invalid action ID", of |-> id] : id \in invalid_actions}
    \cup {[message |-> "Invalid resource type", of |-> type] : type \in invalid_resource_types}

WarningsOf(template_actions, template_resource_types, valid_actions, valid_resource_types) ==
    (IF template_actions # {} /\ valid_actions # {}
     THEN <<"Validated action IDs">> ELSE <<>>)
    \o (IF template_resource_types # {} /\ valid_resource_types # {}
        THEN <<"Validated resource types">> ELSE <<>>)
    \o <<"Validation covers only action IDs and resource types">>

\* the lists invalid_actions and invalid_resource_types are kept as sets and
\* errors as the set of its messages: their order is that of set iteration
validate_template(t) ==
    IF _get_valid_action_ids = {} /\ _get_valid_resource_types = {}
    THEN ValidationResult(t, TRUE, {}, <<"No cached FIS capabilities available">>, {}, {})
    ELSE ValidationResult(t,
             /\ _extract_action_ids(FisTemplates[t]) \ _get_valid_action_ids = {}
             /\ _extract_resource_types(FisTemplates[t]) \ _get_valid_resource_types = {},
             ErrorsOf(_extract_action_ids(FisTemplates[t]) \ _get_valid_action_ids,
                      _extract_resource_types(FisTemplates[t]) \ _get_valid_resource_types),
             WarningsOf(_extract_action_ids(FisTemplates[t]),
                        _extract_resource_types(FisTemplates[t]),
                        _get_valid_action_ids, _get_valid_resource_types),
             _extract_action_ids(FisTemplates[t]) \ _get_valid_action_ids,
             _extract_resource_types(FisTemplates[t]) \ _get_valid_resource_types)

\* validate_fis_template(template)
ValidateFisTemplate ==
    /\ \E t \in 1..Len(FisTemplates) : fis_reply' = validate_template(t)
    /\ UNCHANGED <<fis_files, fis_clock>>
    /\ UNCHANGED notFisVars

\* a step that is a call of validate_fis_template
ValidateStep ==
    /\ fis_reply'.tool = "validate_fis_template"
    /\ UNCHANGED <<fis_files, fis_clock>>

\* the action IDs and the resource types the template uses
UsedActions(response) == _extract_action_ids(FisTemplates[response.template])
UsedTypes(response) == _extract_resource_types(FisTemplates[response.template])

\* C18: validate_template returns valid=true only if every action ID and
\* every resource type the template uses is among the valid ones of the
\* fresh cache; invalid_actions is exactly the set of the template's action
\* IDs that are not cached valid actions, invalid_resource_types exactly
\* the set of its resource types that are not cached valid resource types,
\* and errors holds one message for each invalid entry
C18_ValidOnlyIfAllCached ==
    [][ValidateStep
       => /\ fis_reply'.valid
             => /\ UsedActions(fis_reply') \subseteq _get_valid_action_ids
                /\ UsedTypes(fis_reply') \subseteq _get_valid_resource_types
          /\ fis_reply'.invalid_actions = UsedActions(fis_reply') \ _get_valid_action_ids
          /\ fis_reply'.invalid_resource_types
                = UsedTypes(fis_reply') \ _get_valid_resource_types
          /\ Cardinality(fis_reply'.errors)
                = Cardinality(fis_reply'.invalid_actions)
                  + Cardinality(fis_reply'.invalid_resource_types)]_vars

FisNext ==
    \/ ValidateFisTemplate
    \/ Tick
    \/ GetValidFisActions
    \/ RefreshValidFisActionsCache

SpecFis == FisInit /\ [][FisNext]_vars

(***************************************************************************)
(* The password-reset tools (ai-password-reset-chatbot/agent/              *)
(* strands_agent.py).  Every call is made twice on the same arguments:     *)
(* once against a user pool that holds the account, once against one that  *)
(* does not, where Cognito answers UserNotFoundException.                  *)
(***************************************************************************)

\* the account of the user pool
Account == Chars("ana@example.com")

\* the arguments the agent passes
Usernames == {"ana@example.com", " ana@example.com ", "bob@example.com"}
VerificationCodes == {"123456", " 123456 ", "000000"}
NewPasswords == {"Abcdef12", "short"}

\* the code Cognito mails
MailedCode == "123456"

\* what Cognito may answer whatever the request is; the last one is not a
\* ClientError
CognitoFaults == {"none", "LimitExceededException", "InternalErrorException",
                  "EndpointConnectionError"}

\* the password policy of the user pool: 8+ characters, an uppercase
\* letter, a lowercase letter, a digit
MeetsPolicy(password) ==
    /\ Len(password) >= 8
    /\ \E k \in 1..Len(password) : password[k] \in CharSet("ABCDEFGHIJKLMNOPQRSTUVWXYZ")
    /\ \E k \in 1..Len(password) : password[k] \in CharSet("abcdefghijklmnopqrstuvwxyz")
    /\ \E k \in 1..Len(password) : password[k] \in CharSet("0123456789")

\* cognito_client.forgot_password(Username=...) for a pool that holds the
\* account (exists) or not; refusal is an answer Cognito gives for an
\* existing account only
forgot_password(exists, username, fault, refusal) ==
    IF fault # "none" THEN fault
    ELSE IF exists /\ username = Account
    THEN (IF refusal # "none" THEN refusal ELSE "ok")
    ELSE "UserNotFoundException"

\* cognito_client.confirm_forgot_password(Username=..., ConfirmationCode=...,
\* Password=...)
confirm_forgot_password(exists, username, code, password, fault) ==
    IF fault # "none" THEN fault
    ELSE IF ~(exists /\ username = Account) THEN "UserNotFoundException"
    ELSE IF ~MeetsPolicy(password) THEN "InvalidPasswordException"
    ELSE IF cognito.code = "" \/ cognito.expired THEN "ExpiredCodeException"
    ELSE IF code # Chars(cognito.code) THEN "CodeMismatchException"
    ELSE "ok"

Message(text) == [text |-> text]

\* f"If an account exists for '{username}', a verification code has been sent. ..."
CodeSent(username) ==
    [text |-> "If an account exists for '{username}', a verification code has been sent.",
     username |-> username]

NotConfigured ==
    Message("Error: Password reset service is not configured. Please contact support.")

\* initiate_password_reset(username) when forgot_password answers outcome
initiate_password_reset(username, outcome) ==
    IF user_pool_client_id = "" THEN NotConfigured
    ELSE IF outcome = "ok" THEN CodeSent(username)
    ELSE IF outcome = "EndpointConnectionError"
    THEN Message("An unexpected error occurred. Please try again later.")
    ELSE IF outcome = "UserNotFoundException" THEN CodeSent(username)
    ELSE IF outcome = "LimitExceededException"
    THEN Message("Too many password reset attempts. Please wait a few minutes before trying again.")
    ELSE IF outcome = "InvalidParameterException"
    THEN Message("The email address format appears to be invalid. Please provide a valid email address.")
    ELSE IF outcome = "NotAuthorizedException"
    THEN Message("Password reset is not available for this account. Please contact support.")
    ELSE Message("An error occurred while processing your request. Please try again later.")

\* complete_password_reset(username, verification_code, new_password) when
\* confirm_forgot_password answers outcome
complete_password_reset(outcome) ==
    IF user_pool_client_id = "" THEN NotConfigured
    ELSE IF outcome = "ok"
    THEN Message("Your password has been successfully reset! You can now sign in with your new password.")
    ELSE IF outcome = "EndpointConnectionError"
    THEN Message("An unexpected error occurred. Please try again later.")
    ELSE IF outcome = "CodeMismatchException"
    THEN Message("The verification code you entered is incorrect. Please check the code and try again.")
    ELSE IF outcome = "ExpiredCodeException"
    THEN Message("Your verification code has expired. Would you like me to send a new code?")
    ELSE IF outcome = "InvalidPasswordException"
    THEN Message("Your password doesn't meet the requirements.")
    ELSE IF outcome = "LimitExceededException"
    THEN Message("Too many attempts. Please wait a few minutes before trying again.")
    ELSE IF outcome = "UserNotFoundException"
    THEN Message("Unable to complete password reset. Please start the process again.")
    ELSE Message("An error occurred while resetting your password. Please try again.")

\* a call of a tool: its arguments, what it returns when the pool holds the
\* account (found) and when it does not (missing)
ResetCall(tool_name, args, found, missing) ==
    [tool |-> tool_name, args |-> args, found |-> found, missing |-> missing]

ResetInit ==
    /\ ScanIdle /\ ParseIdle /\ MatchIdle /\ StaticIdle /\ PromptsIdle /\ AnalyzeIdle /\ DetectIdle /\ FisIdle /\ CacheFileIdle
    /\ user_pool_client_id \in {"", "app-client-1"}
    /\ cognito = NoCode
    /\ reset_call = NoCall

InitiatePasswordReset ==
    /\ \E username \in Usernames, fault \in CognitoFaults,
          refusal \in {"none", "InvalidParameterException", "NotAuthorizedException"} :
          /\ reset_call' =
                ResetCall("initiate_password_reset", <<username>>,
                    initiate_password_reset(username,
                        forgot_password(TRUE, Strip(Chars(username)), fault, refusal)),
                    initiate_password_reset(username,
                        forgot_password(FALSE, Strip(Chars(username)), fault, refusal)))
          /\ cognito' =
                IF /\ user_pool_client_id # ""
                   /\ forgot_password(TRUE, Strip(Chars(username)), fault, refusal) = "ok"
                THEN [code |-> MailedCode, expired |-> FALSE]
                ELSE cognito
    /\ UNCHANGED user_pool_client_id
    /\ UNCHANGED notResetVars

\* the mailed code expires
CodeExpires ==
    /\ cognito.code # ""
    /\ ~cognito.expired
    /\ cognito' = [cognito EXCEPT !.expired = TRUE]
    /\ UNCHANGED <<user_pool_client_id, reset_call>>
    /\ UNCHANGED notResetVars

CompletePasswordReset ==
    /\ \E username \in Usernames, verification_code \in VerificationCodes,
          new_password \in NewPasswords, fault \in CognitoFaults :
          /\ reset_call' =
                ResetCall("complete_password_reset",
                    <<username, verification_code, new_password>>,
                    complete_password_reset(
                        confirm_forgot_password(TRUE, Strip(Chars(username)),
                            Strip(Chars(verification_code)), Chars(new_password), fault)),
                    complete_password_reset(
                        confirm_forgot_password(FALSE, Strip(Chars(username)),
                            Strip(Chars(verification_code)), Chars(new_password), fault)))
          /\ cognito' =
                IF /\ user_pool_client_id # ""
                   /\ confirm_forgot_password(TRUE, Strip(Chars(username)),
                          Strip(Chars(verification_code)), Chars(new_password), fault) = "ok"
                THEN NoCode
                ELSE cognito
    /\ UNCHANGED user_pool_client_id
    /\ UNCHANGED notResetVars

\* C19: for any username the text initiate_password_reset and
\* complete_password_reset return is the same whether or not an account
\* exists for it (Cognito answering UserNotFoundException when it does
\* not), the other inputs being the same
C19_AccountExistenceNotDisclosed ==
    reset_call.tool # "none" => reset_call.found = reset_call.missing

ResetNext ==
    \/ InitiatePasswordReset
    \/ CodeExpires
    \/ CompletePasswordReset

SpecReset == ResetInit /\ [][ResetNext]_vars

(***************************************************************************)
(* FISCache.update_cache and get_cached_data on the files of one region,   *)
(* step by step, with several processes updating at once                   *)
(***************************************************************************)

\* the calls of update_cache one process makes
MaxUpdates == 2

\* the writes to the descriptor one json.dump needs
MaxChunks == 2

\* datetime.now(timezone.utc).isoformat() of each process's calls
Timestamps == <<<<"t11", "t12">>, <<"t21", "t22">>>>

\* one written piece of an entry: whose call wrote it, which piece of how many
Chunk(w, call, k, of) == [by |-> w, call |-> call, k |-> k, of |-> of]

\* the bytes a file has where nothing was written
Hole == Chunk(-1, 0, 0, 0)

\* json.dump(cache_entry, f, indent=2, ensure_ascii=False) in full
EntryText(w, call, size) == [k \in 1..size |-> Chunk(w, call, k, size)]

\* the entry in the cache file when the processes start
PreviousEntry == EntryText(0, 0, 1)

\* the text has the shape of one JSON document
WellShaped(text) ==
    /\ text # <<>>
    /\ \A k \in 1..Len(text) : text[k].k = k /\ text[k].of = Len(text)

\* the text is one entry as one call of json.dump wrote it
Complete(text) ==
    /\ WellShaped(text)
    /\ \A k \in 1..Len(text) : text[k].by = text[1].by /\ text[k].call = text[1].call

\* what json.load may do with the text: pieces of two entries that fit
\* together may or may not parse
Decodings(text) ==
    IF Complete(text) THEN {TRUE} ELSE IF WellShaped(text) THEN BOOLEAN ELSE {FALSE}

\* the arguments fis_data: not a dictionary, or one whose entry takes so
\* many writes
FisDataArgs ==
    {[dict |-> FALSE, chunks |-> 0]} \cup {[dict |-> TRUE, chunks |-> n] : n \in 1..MaxChunks}

\* the inodes a name or an open descriptor refers to
Referenced(names, procs) ==
    {names[n] : n \in CacheNames} \cup {procs[w].fd : w \in Writers}

\* the file system forgets an inode nothing refers to
Swept(nodes, names, procs) ==
    [i \in 1..MaxInodes |-> IF i \in Referenced(names, procs) THEN nodes[i] ELSE <<>>]

FreeInode == Least({i \in 1..MaxInodes : i \notin Referenced(cf_dir, upd)})

\* f.write at the descriptor's offset
WriteAt(text, off, chunk) ==
    [k \in 1..(IF Len(text) > off + 1 THEN Len(text) ELSE off + 1) |->
        IF k = off + 1 THEN chunk ELSE IF k <= Len(text) THEN text[k] ELSE Hole]

\* what a reader of the region's cache file finds, <<>>: no file or nothing in it
CacheFile == IF cf_dir["cache"] = 0 THEN <<>> ELSE cf_inodes[cf_dir["cache"]]

CacheFileInit ==
    /\ ScanIdle /\ ParseIdle /\ MatchIdle /\ StaticIdle /\ PromptsIdle /\ AnalyzeIdle /\ DetectIdle /\ FisIdle /\ ResetIdle
    /\ cf_dir = [NoNames EXCEPT !["cache"] = 1]
    /\ cf_inodes = [NoContents EXCEPT ![1] = PreviousEntry]
    /\ upd = [w \in Writers |-> NotUpdating]
    /\ got = NotRead

\* update_cache(region, fis_data) up to the temporary file's path
UpdateCacheBegin(w) ==
    /\ upd[w].pc = "idle"
    /\ upd[w].entry < MaxUpdates
    /\ \E fis_data \in FisDataArgs :
          upd' = [upd EXCEPT ![w] =
                     IF fis_data.dict
                     THEN [pc |-> "open", fd |-> 0, off |-> 0, entry |-> @.entry + 1,
                           size |-> fis_data.chunks, answer |-> NoAnswer]
                     ELSE [pc |-> "idle", fd |-> 0, off |-> 0, entry |-> @.entry + 1,
                           size |-> 0,
                           answer |-> <<FALSE, "Invalid data format: expected dictionary", None>>]]
    /\ UNCHANGED <<cf_dir, cf_inodes, got>>
    /\ UNCHANGED notCacheFileVars

\* open(temp_file, 'w', encoding='utf-8'): creates the file or empties the
\* one of that name, or raises
UpdateCacheOpen(w) ==
    /\ upd[w].pc = "open"
    /\ \E opened \in BOOLEAN :
          IF opened
          THEN \E i \in {IF cf_dir["tmp"] # 0 THEN cf_dir["tmp"] ELSE FreeInode} :
                  /\ cf_dir' = [cf_dir EXCEPT !["tmp"] = i]
                  /\ cf_inodes' = [cf_inodes EXCEPT ![i] = <<>>]
                  /\ upd' = [upd EXCEPT ![w].pc = "write", ![w].fd = i]
          ELSE /\ upd' = [upd EXCEPT ![w].pc = "cleanup"]
               /\ UNCHANGED <<cf_dir, cf_inodes>>
    /\ UNCHANGED got
    /\ UNCHANGED notCacheFileVars

\* json.dump(cache_entry, f, ...): one write reaches the file, or the write
\* raises; the with statement closes the file after the last write and on
\* the exception
UpdateCacheWrite(w) ==
    /\ upd[w].pc = "write"
    /\ \E written \in BOOLEAN :
          \E procs \in {[upd EXCEPT ![w] =
                            IF ~written
                            THEN [@ EXCEPT !.pc = "cleanup", !.fd = 0]
                            ELSE IF @.off + 1 = @.size
                            THEN [@ EXCEPT !.pc = "replace", !.fd = 0, !.off = @ + 1]
                            ELSE [@ EXCEPT !.off = @ + 1]]} :
             /\ upd' = procs
             /\ cf_inodes' =
                   Swept(IF written
                         THEN [cf_inodes EXCEPT ![upd[w].fd] =
                                  WriteAt(@, upd[w].off,
                                          Chunk(w, upd[w].entry, upd[w].off + 1, upd[w].size))]
                         ELSE cf_inodes,
                         cf_dir, procs)
    /\ UNCHANGED <<cf_dir, got>>
    /\ UNCHANGED notCacheFileVars

\* temp_file.replace(cache_file) and the return of success; FileNotFoundError
\* when no file has the temporary name
UpdateCacheReplace(w) ==
    /\ upd[w].pc = "replace"
    /\ IF cf_dir["tmp"] = 0
       THEN /\ upd' = [upd EXCEPT ![w].pc = "cleanup"]
            /\ UNCHANGED <<cf_dir, cf_inodes>>
       ELSE \E names \in {[cache |-> cf_dir["tmp"], tmp |-> 0]} :
               /\ cf_dir' = names
               /\ cf_inodes' = Swept(cf_inodes, names, upd)
               /\ upd' = [upd EXCEPT ![w].pc = "idle",
                                     ![w].answer = <<TRUE, "Cache updated successfully",
                                                     Timestamps[w][upd[w].entry]>>]
    /\ UNCHANGED got
    /\ UNCHANGED notCacheFileVars

\* except Exception: if temp_file.exists(): temp_file.unlink(); raise; and the
\* outer handler's return
UpdateCacheCleanup(w) ==
    /\ upd[w].pc = "cleanup"
    /\ \E names \in {[cf_dir EXCEPT !["tmp"] = 0]} :
          /\ cf_dir' = names
          /\ cf_inodes' = Swept(cf_inodes, names, upd)
    /\ upd' = [upd EXCEPT ![w].pc = "idle",
                          ![w].answer = <<FALSE, "Failed to update cache", None>>]
    /\ UNCHANGED got
    /\ UNCHANGED notCacheFileVars

\* get_cached_data(region): the file read in one piece; a text json.load
\* rejects is removed
ReadCachedData ==
    /\ IF cf_dir["cache"] = 0
       THEN /\ got' = [kind |-> "None", data |-> <<>>]
            /\ UNCHANGED <<cf_dir, cf_inodes>>
       ELSE \E decoded \in Decodings(CacheFile) :
               IF decoded
               THEN /\ got' = [kind |-> "data", data |-> CacheFile]
                    /\ UNCHANGED <<cf_dir, cf_inodes>>
               ELSE \E names \in {[cf_dir EXCEPT !["cache"] = 0]} :
                       /\ got' = [kind |-> "None", data |-> <<>>]
                       /\ cf_dir' = names
                       /\ cf_inodes' = Swept(cf_inodes, names, upd)
    /\ UNCHANGED upd
    /\ UNCHANGED notCacheFileVars

CacheFileNext ==
    \/ \E w \in Writers : UpdateCacheBegin(w)
    \/ \E w \in Writers : UpdateCacheOpen(w)
    \/ \E w \in Writers : UpdateCacheWrite(w)
    \/ \E w \in Writers : UpdateCacheReplace(w)
    \/ \E w \in Writers : UpdateCacheCleanup(w)
    \/ ReadCachedData

SpecCacheFile == CacheFileInit /\ [][CacheFileNext]_vars

\* process w's call of update_cache returns in this step
Returns(w) == upd'[w].pc = "idle" /\ upd'[w].entry > 0 /\ upd'[w] # upd[w]

\* C30: update_cache replaces the region's cache file atomically, whatever
\* the interleaving, a write failing part-way and two updates at once
\* included: a reader finds the complete previous entry or one complete new
\* entry, never a partial or mixed one; the file's content changes only in
\* the step in which an update returns success, and then to that update's
\* entry; a failed update returns (False, message, None)
C30_AtomicReplace ==
    [][/\ Complete(CacheFile')
       /\ got'.kind = "data" => Complete(got'.data)
       /\ CacheFile' # CacheFile
          => \E w \in Writers :
                /\ Returns(w) /\ upd'[w].answer[1]
                /\ CacheFile' = EntryText(w, upd[w].entry, upd[w].size)
       /\ \A w \in Writers :
             Returns(w)
             => IF upd'[w].answer[1]
                THEN CacheFile' = EntryText(w, upd[w].entry, upd[w].size)
                ELSE upd'[w].answer[3] = None /\ CacheFile' = CacheFile]_vars

(***************************************************************************)
(* The parser on identifiers of providers it has no branch for             *)
(***************************************************************************)
\* the text before the first dot of s (all of s when it has no dot)
LeadingToken(s) ==
    SubSeq(s, 1, Least({k \in 1..Len(s) : s[k] = "."} \cup {Len(s) + 1}) - 1)

\* s without its region prefix
Unprefixed(s) ==
    IF LeadingToken(s) \in {Chars(r) : r \in Regions} /\ Len(LeadingToken(s)) < Len(s)
    THEN SubSeq(s, Len(LeadingToken(s)) + 2, Len(s))
    ELSE s

\* the leading [a-z0-9]+ token that a dot follows, if there is one
LeadingProvider(s) ==
    IF /\ LeadingToken(s) # <<>>
       /\ Len(LeadingToken(s)) < Len(s)
       /\ \A k \in 1..Len(LeadingToken(s)) :
             LeadingToken(s)[k] \in LowerChars \cup DigitChars
    THEN LeadingToken(s)
    ELSE NoText

\* C23, as amended: on an identifier that contains none of anthropic, amazon,
\* meta, mistral, cohere, ai21 the parser leaves family and tier None, and
\* provider is the leading token before the first dot of the lowercased
\* identifier without its region prefix (stability, deepseek, openai, qwen,
\* twelvelabs, ...), None only when there is no such token
C23_UnbranchedProvider ==
    (parse_pc = "done" /\ NoProviderToken(model_id))
    => /\ parsed.family = NoText
       /\ parsed.tier = NoText
       /\ parsed.provider = LeadingProvider(Unprefixed(Lower(model_id)))

\* EU.DEEPSEEK.R1-V1:0, which the model-ID matcher accepts in lower case,
\* has been parsed
C23_Witness ==
    /\ parse_pc = "done"
    /\ model_id = Chars("EU.DEEPSEEK.R1-V1:0")
    /\ NoProviderToken(model_id)
    /\ ModelMatches(Lower(model_id)) # <<>>
    /\ parsed.provider = Chars("deepseek")
    /\ parsed.family = NoText
    /\ parsed.tier = NoText

\* C23, as stated: family, provider and tier are all None
C23_AllNone ==
    (parse_pc = "done" /\ NoProviderToken(model_id))
    => /\ parsed.family = NoText
       /\ parsed.provider = NoText
       /\ parsed.tier = NoText

Next == ScanNext \/ ParseNext \/ MatchNext \/ StaticNext \/ PromptsNext \/ AnalyzeNext \/ CacheFileNext
        \/ DetectNext \/ FisNext \/ ResetNext

Spec == SpecScan
====
